---- MODULE Spec2Model ----
(***************************************************************************)
(* ALICE-Settlement: the clearing house (src/src/clearing.rs), the         *)
(* bilateral netting engine and multilateral_net (src/src/netting.rs), the *)
(* settlement journal (src/src/journal.rs), the default waterfall          *)
(* (src/src/waterfall.rs), the replay verifier (src/src/replay.rs) and the *)
(* margin engine (src/src/margin.rs) as state machines, one specification  *)
(* each.                                                                   *)
(*                                                                         *)
(* Machine integers keep their width.  The widths are scaled down so that  *)
(* the model is finite: I64Max stands for i64::MAX, U64Max for u64::MAX,   *)
(* U32Max for u32::MAX, and the i128 range is derived from them the way    *)
(* 2^127 = 2^63 * 2^64 is.  An arithmetic overflow of `+`, `-`, `+=`,     *)
(* `-=` or unary `-` panics when the crate is built with overflow checks   *)
(* (the debug profile) and wraps otherwise (the release profile); the      *)
(* variable overflow_checks is the profile of the build under test.        *)
(***************************************************************************)
EXTENDS Integers, Sequences, FiniteSets, Bags, TLC

VARIABLES
    overflow_checks,  \* build profile: TRUE = overflow panics, FALSE = wraps
    panicked,         \* a call has panicked (the thread unwound)
    accounts,         \* ClearingHouse.accounts : id -> ClearingAccount
    call,             \* the last ClearingHouse call: its inputs, pre-state, results
    accumulators,     \* NettingEngine.accumulators : NettingKey -> accumulator
    trades,           \* the bag of trades given to add_trade since new()/clear()
    emitted,          \* the last compute_net result, while it is current
    multilateral,     \* the frame of a multilateral_net call: its locals and position
    entries,          \* SettlementJournal.entries
    next_seq,         \* SettlementJournal.next_seq
    recorded,         \* the last SettlementJournal::record call: its inputs, pre-state
    config,           \* DefaultWaterfall.config, once constructed
    waterfall_result, \* the last absorb_loss call: its input and result
    replay,           \* the last ReplayVerifier call: its inputs and result
    run,              \* the last run of whole netting cycles: its trades and results
    margin            \* the last MarginEngine call: its inputs and result

vars == <<overflow_checks, panicked, accounts, call, accumulators, trades, emitted,
          multilateral, entries, next_seq, recorded, config, waterfall_result,
          replay, run, margin>>

(* ------------------------------ bounds --------------------------------- *)

I64Max == 2
U64Max == 3
U32Max == 2
MaxBatch == 3
MaxTrades == 3

I64Min == -(I64Max + 1)
I64 == I64Min..I64Max
\* 2^127 = 2^63 * 2^64; a net_quantity_signed cannot leave the i128 range
\* with fewer than 2^63 trades, here MaxTrades <= I64Max + 1
I128Max == (I64Max + 1) * (U64Max + 1) - 1
I128Min == -(I128Max + 1)

AccountIds == {1, 2, 3}

(* --------------------------- machine integers -------------------------- *)

InRange(v, lo, hi) == lo <= v /\ v <= hi

\* two's-complement wrapping of v into lo..hi
WrapTo(v, lo, hi) == ((v - lo) % (hi - lo + 1)) + lo

WrapI64(v) == WrapTo(v, I64Min, I64Max)

OverflowsI64(v) == ~InRange(v, I64Min, I64Max)

(* ============================ ClearingHouse ============================ *)

ClearingAccount(id, balance) ==
    [account_id |-> id, balance |-> balance, margin_held |-> 0]

\* Result<(), ClearingError>, plus the panic of an overflow-checked build
Ok == [tag |-> "Ok", account_id |-> 0, required |-> 0, available |-> 0]
AccountNotFound(id) ==
    [tag |-> "AccountNotFound", account_id |-> id, required |-> 0, available |-> 0]
InsufficientBalance(id, required, available) ==
    [tag |-> "InsufficientBalance", account_id |-> id,
     required |-> required, available |-> available]
Panic == [tag |-> "Panic", account_id |-> 0, required |-> 0, available |-> 0]

NetObligation(symbol, deliverer, receiver, quantity, payment, count) ==
    [symbol_hash |-> symbol, deliverer_id |-> deliverer, receiver_id |-> receiver,
     net_quantity |-> quantity, net_payment |-> payment, trade_count |-> count]

\* mutant: an account that exists already keeps its balance (insert if absent)
register_account_if_absent(accts, id, initial_balance) ==
    [a \in DOMAIN accts \cup {id} |->
        IF a \in DOMAIN accts THEN accts[a] ELSE ClearingAccount(id, initial_balance)]

register_account(accts, id, initial_balance) ==
    [a \in DOMAIN accts \cup {id} |->
        IF a = id THEN ClearingAccount(id, initial_balance) ELSE accts[a]]

\* Option<&ClearingAccount>: <<>> is None, <<acc>> is Some(acc)
get_account(accts, id) ==
    IF id \in DOMAIN accts THEN <<accts[id]>> ELSE <<>>

SetBalance(accts, id, b) ==
    [accts EXCEPT ![id] = [@ EXCEPT !.balance = b]]

\* acc.balance -= net_payment on the deliverer
Debit(accts, ob) ==
    SetBalance(accts, ob.deliverer_id,
               WrapI64(accts[ob.deliverer_id].balance - ob.net_payment))

\* acc.balance += net_payment on the receiver
Credit(accts, ob) ==
    SetBalance(accts, ob.receiver_id,
               WrapI64(accts[ob.receiver_id].balance + ob.net_payment))

\* mutant: the deliverer is debited before the receiver and the balance are checked
clear_obligation_debit_first(accts, ob, checks) ==
    IF ob.deliverer_id \notin DOMAIN accts
    THEN [accounts |-> accts, result |-> AccountNotFound(ob.deliverer_id)]
    ELSE LET deliverer_balance == accts[ob.deliverer_id].balance
             debited == Debit(accts, ob) IN
    IF ob.receiver_id \notin DOMAIN accts
    THEN [accounts |-> debited, result |-> AccountNotFound(ob.receiver_id)]
    ELSE IF deliverer_balance < ob.net_payment
    THEN [accounts |-> debited,
          result |-> InsufficientBalance(ob.deliverer_id, ob.net_payment,
                                         deliverer_balance)]
    ELSE [accounts |-> Credit(debited, ob), result |-> Ok]

\* mutant: the receiver is looked up before the deliverer
clear_obligation_receiver_first(accts, ob, checks) ==
    IF ob.receiver_id \notin DOMAIN accts
    THEN [accounts |-> accts, result |-> AccountNotFound(ob.receiver_id)]
    ELSE IF ob.deliverer_id \notin DOMAIN accts
    THEN [accounts |-> accts, result |-> AccountNotFound(ob.deliverer_id)]
    ELSE LET deliverer_balance == accts[ob.deliverer_id].balance IN
    IF deliverer_balance < ob.net_payment
    THEN [accounts |-> accts,
          result |-> InsufficientBalance(ob.deliverer_id, ob.net_payment,
                                         deliverer_balance)]
    ELSE [accounts |-> Credit(Debit(accts, ob), ob), result |-> Ok]

clear_obligation(accts, ob, checks) ==
    IF ob.deliverer_id \notin DOMAIN accts
    THEN [accounts |-> accts, result |-> AccountNotFound(ob.deliverer_id)]
    ELSE IF ob.receiver_id \notin DOMAIN accts
    THEN [accounts |-> accts, result |-> AccountNotFound(ob.receiver_id)]
    ELSE LET deliverer_balance == accts[ob.deliverer_id].balance IN
    IF deliverer_balance < ob.net_payment
    THEN [accounts |-> accts,
          result |-> InsufficientBalance(ob.deliverer_id, ob.net_payment,
                                         deliverer_balance)]
    ELSE IF checks /\ OverflowsI64(deliverer_balance - ob.net_payment)
    THEN [accounts |-> accts, result |-> Panic]
    ELSE LET debited == Debit(accts, ob) IN
    IF checks /\ OverflowsI64(debited[ob.receiver_id].balance + ob.net_payment)
    THEN [accounts |-> debited, result |-> Panic]
    ELSE [accounts |-> Credit(debited, ob), result |-> Ok]

\* obligations.iter().map(|ob| self.clear_obligation(ob)).collect(): the
\* results vector exists only if no element panicked
RECURSIVE clear_all_from(_, _, _, _, _)
clear_all_from(accts, obligations, i, results, checks) ==
    IF i > Len(obligations)
    THEN [accounts |-> accts, results |-> results, panicked |-> FALSE]
    ELSE LET r == clear_obligation(accts, obligations[i], checks) IN
         IF r.result.tag = "Panic"
         THEN [accounts |-> r.accounts, results |-> <<>>, panicked |-> TRUE]
         ELSE clear_all_from(r.accounts, obligations, i + 1,
                             Append(results, r.result), checks)

\* mutant: a batch with a failure is rolled back as a whole
clear_all_rollback(accts, obligations, checks) ==
    LET r == clear_all_from(accts, obligations, 1, <<>>, checks) IN
    IF \E i \in 1..Len(r.results) : r.results[i].tag # "Ok"
    THEN [r EXCEPT !.accounts = accts]
    ELSE r

clear_all(accts, obligations, checks) ==
    clear_all_from(accts, obligations, 1, <<>>, checks)

(* ------------------------------ inputs --------------------------------- *)

\* obligations handed to clear_obligation
Obligations ==
    { NetObligation(1, d, r, 1, p, 1) : d \in AccountIds, r \in AccountIds, p \in I64 }

\* obligations handed to clear_all
BatchObligations ==
    { NetObligation(1, 1, 2, 1, 1, 1), NetObligation(1, 2, 3, 1, I64Max, 1),
      NetObligation(1, 3, 1, 1, -1, 1) }

RECURSIVE SeqsUpTo(_, _)
SeqsUpTo(S, n) ==
    IF n = 0 THEN {<<>>}
    ELSE LET shorter == SeqsUpTo(S, n - 1) IN
         shorter \cup { Append(s, x) : s \in {t \in shorter : Len(t) = n - 1}, x \in S }

Batches == SeqsUpTo(BatchObligations, MaxBatch)

(* ============================ NettingEngine ============================ *)

Trade(symbol, buyer, seller, price, quantity) ==
    [symbol_hash |-> symbol, buyer_id |-> buyer, seller_id |-> seller,
     price |-> price, quantity |-> quantity]

NettingKey(symbol, lo, hi) == [symbol_hash |-> symbol, lo_id |-> lo, hi_id |-> hi]

\* #[derive(Default)] NettingAccumulator
DefaultAccumulator ==
    [net_quantity_signed |-> 0, net_payment_signed |-> 0, trade_count |-> 0]

\* mutant: the pair is kept in (buyer, seller) order
canonical_pair_as_given(a, b) == <<a, b>>

canonical_pair(a, b) == IF a <= b THEN <<a, b>> ELSE <<b, a>>

\* v.clamp(i64::MIN as i128, i64::MAX as i128) as i64
saturating_i128_to_i64(v) ==
    IF v < I64Min THEN I64Min ELSE IF v > I64Max THEN I64Max ELSE v

\* `v as u64` of an i128: the low 64 bits
AsU64(v) == v % (U64Max + 1)

OverflowsI128(v) == ~InRange(v, I128Min, I128Max)
WrapI128(v) == WrapTo(v, I128Min, I128Max)

KeyOf(trade) ==
    LET pair == canonical_pair(trade.buyer_id, trade.seller_id) IN
    NettingKey(trade.symbol_hash, pair[1], pair[2])

PutAccumulator(accs, key, acc) ==
    [k \in DOMAIN accs \cup {key} |-> IF k = key THEN acc ELSE accs[k]]

\* mutant: the signed quantity of the trade replaces the accumulated one
add_trade_overwrite(accs, trade, checks) ==
    LET key == KeyOf(trade)
        acc == IF key \in DOMAIN accs THEN accs[key] ELSE DefaultAccumulator
        qty == trade.quantity
        sign == IF trade.buyer_id = key.lo_id THEN 1 ELSE -1
        count == acc.trade_count + 1
        acc3 == [trade_count |-> IF count > U32Max THEN 0 ELSE count,
                 net_quantity_signed |-> sign * qty,
                 net_payment_signed |->
                     WrapI128(acc.net_payment_signed + sign * trade.price * qty)]
    IN  [accumulators |-> PutAccumulator(accs, key, acc3), panicked |-> FALSE]

\* add_trade: the three read-modify-write steps on the entry, each of which
\* panics on overflow in an overflow-checked build and wraps otherwise
add_trade(accs, trade, checks) ==
    LET key == KeyOf(trade)
        acc == IF key \in DOMAIN accs THEN accs[key] ELSE DefaultAccumulator
        qty == trade.quantity
        payment == trade.price * qty
        sign == IF trade.buyer_id = key.lo_id THEN 1 ELSE -1
        count == acc.trade_count + 1
        acc1 == [acc EXCEPT !.trade_count = IF count > U32Max THEN 0 ELSE count]
        q == acc.net_quantity_signed + sign * qty
        acc2 == [acc1 EXCEPT !.net_quantity_signed = WrapI128(q)]
        p == acc.net_payment_signed + sign * payment
        acc3 == [acc2 EXCEPT !.net_payment_signed = WrapI128(p)]
    IN  IF checks /\ count > U32Max
        THEN [accumulators |-> PutAccumulator(accs, key, acc), panicked |-> TRUE]
        ELSE IF checks /\ OverflowsI128(q)
        THEN [accumulators |-> PutAccumulator(accs, key, acc1), panicked |-> TRUE]
        ELSE IF checks /\ OverflowsI128(p)
        THEN [accumulators |-> PutAccumulator(accs, key, acc2), panicked |-> TRUE]
        ELSE [accumulators |-> PutAccumulator(accs, key, acc3), panicked |-> FALSE]

\* the obligation compute_net pushes for one accumulator with a non-zero
\* signed quantity
EmitObligation(key, acc) ==
    IF acc.net_quantity_signed > 0
    THEN NetObligation(key.symbol_hash, key.hi_id, key.lo_id,
                       AsU64(acc.net_quantity_signed),
                       saturating_i128_to_i64(acc.net_payment_signed),
                       acc.trade_count)
    ELSE NetObligation(key.symbol_hash, key.lo_id, key.hi_id,
                       AsU64(WrapI128(-acc.net_quantity_signed)),
                       saturating_i128_to_i64(WrapI128(-acc.net_payment_signed)),
                       acc.trade_count)

\* unary minus on i128::MIN overflows
NegationOverflows(acc) ==
    /\ acc.net_quantity_signed < 0
    /\ \/ acc.net_quantity_signed = I128Min
       \/ acc.net_payment_signed = I128Min

\* the accumulators compute_net does not skip
EmittingKeys(accs) == { k \in DOMAIN accs : accs[k].net_quantity_signed # 0 }

\* compute_net: the returned Vec as a set (its order is the map's)
compute_net(accs, checks) ==
    IF checks /\ \E k \in EmittingKeys(accs) : NegationOverflows(accs[k])
    THEN [current |-> TRUE, panicked |-> TRUE, obligations |-> {}]
    ELSE [current |-> TRUE, panicked |-> FALSE,
          obligations |-> { EmitObligation(k, accs[k]) : k \in EmittingKeys(accs) }]

\* mutant: the entries stay in the map, with their quantities at zero
clear_quantities(accs) ==
    [k \in DOMAIN accs |-> [accs[k] EXCEPT !.net_quantity_signed = 0]]

\* self.accumulators.clear()
clear(accs) == <<>>

\* NettingEngine::new: an empty map
NewEngine == <<>>

\* add_trade for each trade of ts from the i-th on, in order; a panic ends
\* the calls
RECURSIVE add_trades(_, _, _, _)
add_trades(accs, ts, i, checks) ==
    IF i > Len(ts) THEN [accumulators |-> accs, panicked |-> FALSE]
    ELSE LET r == add_trade(accs, ts[i], checks) IN
         IF r.panicked THEN r ELSE add_trades(r.accumulators, ts, i + 1, checks)

\* what compute_net returns on the engine accs after add_trade(ts[1]), ...,
\* add_trade(ts[Len(ts)])
NetOf(accs, ts, checks) ==
    LET a == add_trades(accs, ts, 1, checks) IN
    IF a.panicked THEN [current |-> TRUE, panicked |-> TRUE, obligations |-> {}]
    ELSE compute_net(a.accumulators, checks)

(* ------------------------------ inputs --------------------------------- *)

Symbols == {1, 2}
TradePairs == {<<1, 2>>, <<2, 1>>, <<2, 2>>}
Prices == {1, I64Max}
Quantities == {1, U64Max}
Trades ==
    { Trade(s, pr[1], pr[2], p, q) :
        s \in Symbols, pr \in TradePairs, p \in Prices, q \in Quantities }

(* ----------------------------- the machine ----------------------------- *)

NoCall == [op |-> "new", pre |-> <<>>, id |-> 0, balance |-> 0,
           obligations |-> <<>>, results |-> <<>>]

NotEmitted == [current |-> FALSE, panicked |-> FALSE, obligations |-> {}]

ClearingIdle ==
    /\ accounts = <<>>
    /\ call = NoCall

NettingIdle ==
    /\ accumulators = <<>>
    /\ trades = EmptyBag
    /\ emitted = NotEmitted

\* no multilateral_net call is in progress
NoFrame == [pc |-> "idle", obligations |-> <<>>, by_symbol |-> <<>>,
            symbol |-> 0, obs |-> <<>>, before |-> <<>>, cycle_indices |-> <<>>,
            result |-> <<>>]

MultilateralIdle == multilateral = NoFrame

NoRecord == [op |-> "new", pre |-> <<>>, timestamp_ns |-> 0, event |-> <<>>]

\* SettlementJournal::new
JournalNew ==
    /\ entries = <<>>
    /\ next_seq = 1
    /\ recorded = NoRecord

NoWaterfall == [constructed |-> FALSE]
NoAbsorption == [op |-> "none"]

WaterfallNone ==
    /\ config = NoWaterfall
    /\ waterfall_result = NoAbsorption

\* no ReplayVerifier call has been made, or its result has been looked at
NoReplay == [op |-> "none"]

ReplayNone == replay = NoReplay

\* no run of netting cycles has been made, or its result has been looked at
NoRun == [op |-> "none"]

RunNone == run = NoRun

\* no MarginEngine call has been made, or its result has been looked at
NoMargin == [op |-> "none"]

MarginNone == margin = NoMargin

Init ==
    /\ overflow_checks \in BOOLEAN
    /\ panicked = FALSE
    /\ ClearingIdle
    /\ NettingIdle
    /\ MultilateralIdle
    /\ JournalNew
    /\ WaterfallNone
    /\ ReplayNone
    /\ RunNone
    /\ MarginNone

clearingVars == <<accounts, call>>
nettingVars == <<accumulators, trades, emitted>>
multilateralVars == <<multilateral>>
journalVars == <<entries, next_seq, recorded>>
waterfallVars == <<config, waterfall_result>>
replayVars == <<replay>>
runVars == <<run>>
marginVars == <<margin>>

\* what the calls on one component leave alone: the other components
notClearing ==
    <<nettingVars, multilateralVars, journalVars, waterfallVars, replayVars,
      runVars, marginVars>>
notNetting ==
    <<clearingVars, multilateralVars, journalVars, waterfallVars, replayVars,
      runVars, marginVars>>
notMultilateral ==
    <<clearingVars, nettingVars, journalVars, waterfallVars, replayVars,
      runVars, marginVars>>
notJournal ==
    <<clearingVars, nettingVars, multilateralVars, waterfallVars, replayVars,
      runVars, marginVars>>
notWaterfall ==
    <<clearingVars, nettingVars, multilateralVars, journalVars, replayVars,
      runVars, marginVars>>
\* the ReplayVerifier reads the journal and changes nothing
notReplay ==
    <<clearingVars, nettingVars, multilateralVars, journalVars, waterfallVars,
      runVars, marginVars>>
\* a run of netting cycles works on engines of its own
notRun ==
    <<clearingVars, nettingVars, multilateralVars, journalVars, waterfallVars,
      replayVars, marginVars>>
\* the MarginEngine reads obligations and changes nothing
notMargin ==
    <<clearingVars, nettingVars, multilateralVars, journalVars, waterfallVars,
      replayVars, runVars>>

(* ClearingHouse *)

RegisterAccount ==
    \E id \in AccountIds, b \in I64 :
        /\ ~panicked /\ call = NoCall
        /\ accounts' = register_account(accounts, id, b)
        /\ call' = [op |-> "register_account", pre |-> accounts, id |-> id,
                    balance |-> b, obligations |-> <<>>, results |-> <<>>]
        /\ UNCHANGED <<overflow_checks, panicked, notClearing>>

ClearObligation ==
    \E ob \in Obligations :
        LET r == clear_obligation(accounts, ob, overflow_checks) IN
        /\ ~panicked /\ call = NoCall
        /\ accounts' = r.accounts
        /\ panicked' = (r.result.tag = "Panic")
        /\ call' = [op |-> "clear_obligation", pre |-> accounts, id |-> 0,
                    balance |-> 0, obligations |-> <<ob>>, results |-> <<r.result>>]
        /\ UNCHANGED <<overflow_checks, notClearing>>

ClearAll ==
    \E obs \in Batches :
        LET r == clear_all(accounts, obs, overflow_checks) IN
        /\ ~panicked /\ call = NoCall
        /\ accounts' = r.accounts
        /\ panicked' = r.panicked
        /\ call' = [op |-> "clear_all", pre |-> accounts, id |-> 0,
                    balance |-> 0, obligations |-> obs, results |-> r.results]
        /\ UNCHANGED <<overflow_checks, notClearing>>

\* the caller has looked at the outcome of the last call and goes on
Return ==
    /\ ~panicked /\ call # NoCall
    /\ call' = NoCall
    /\ UNCHANGED <<overflow_checks, panicked, accounts, notClearing>>

Next == RegisterAccount \/ ClearObligation \/ ClearAll \/ Return

Spec == Init /\ [][Next]_vars

(* ======================= properties: ClearingHouse ===================== *)

RECURSIVE SumOfSet(_, _)
SumOfSet(S, val) ==
    IF S = {} THEN 0
    ELSE LET x == CHOOSE y \in S : TRUE IN val[x] + SumOfSet(S \ {x}, val)

IsClearObligation == call.op = "clear_obligation"
CallOb == call.obligations[1]
CallResult == call.results[1]
Returned == CallResult.tag # "Panic"
Failed == CallResult.tag \in {"AccountNotFound", "InsufficientBalance"}

\* C1: whenever clear_obligation returns an error (AccountNotFound or
\* InsufficientBalance), every registered account, the deliverer and the
\* receiver included, has the balance and margin_held it had before the call,
\* and the set of registered accounts is the same.
C1_AtomicOnFailure ==
    (IsClearObligation /\ Failed) => accounts = call.pre

C1_Witness ==
    /\ IsClearObligation
    /\ CallResult.tag = "InsufficientBalance"
    /\ CallOb.deliverer_id # CallOb.receiver_id
    /\ CallOb.net_payment > 0
    /\ Cardinality(DOMAIN accounts) = 3

\* C2: when deliverer and receiver are distinct registered accounts and the
\* deliverer's balance is >= net_payment, a clear_obligation call that returns
\* returns Ok, the deliverer's balance is lower by exactly net_payment, the
\* receiver's balance is higher by exactly net_payment, and no other balance,
\* no margin_held and not the set of registered accounts change.
C2_ExactTransfer ==
    (/\ IsClearObligation /\ Returned
     /\ CallOb.deliverer_id # CallOb.receiver_id
     /\ CallOb.deliverer_id \in DOMAIN call.pre
     /\ CallOb.receiver_id \in DOMAIN call.pre
     /\ call.pre[CallOb.deliverer_id].balance >= CallOb.net_payment)
    => /\ CallResult = Ok
       /\ DOMAIN accounts = DOMAIN call.pre
       /\ \A a \in DOMAIN accounts :
            /\ accounts[a].margin_held = call.pre[a].margin_held
            /\ accounts[a].account_id = call.pre[a].account_id
            /\ accounts[a].balance =
                 call.pre[a].balance
                 + (IF a = CallOb.receiver_id THEN CallOb.net_payment ELSE 0)
                 - (IF a = CallOb.deliverer_id THEN CallOb.net_payment ELSE 0)

SumBalances(accts) ==
    SumOfSet(DOMAIN accts, [a \in DOMAIN accts |-> accts[a].balance])

\* C3: a clear_obligation or clear_all call that returns, successful or failed,
\* leaves the sum of the balances of all registered accounts what it was before
\* the call (so any sequence of such calls does).
C3_Conservation ==
    (call.op \in {"clear_obligation", "clear_all"} /\ ~panicked)
    => SumBalances(accounts) = SumBalances(call.pre)

NonNegative(accts) == \A a \in DOMAIN accts : accts[a].balance >= 0

\* the subtraction and the addition of the call stay inside the i64 range
TransferInRange ==
    (CallOb.deliverer_id \in DOMAIN call.pre /\ CallOb.receiver_id \in DOMAIN call.pre)
    => /\ ~OverflowsI64(call.pre[CallOb.deliverer_id].balance - CallOb.net_payment)
       /\ ~OverflowsI64(call.pre[CallOb.receiver_id].balance + CallOb.net_payment)

\* C4: if no registered account has a negative balance before a
\* clear_obligation call with an arbitrary obligation (any i64 net_payment),
\* none has one after it, so that balances registered non-negative never go
\* negative through clearing.  Stated for the calls whose arithmetic stays in
\* the i64 range: what refutes it is not an overflow.
C4_NoNegativeBalance ==
    (IsClearObligation /\ TransferInRange /\ NonNegative(call.pre))
    => NonNegative(accounts)

\* the verdict the claimed order of checks gives on accounts accts
Verdict(accts, ob) ==
    IF ob.deliverer_id \notin DOMAIN accts THEN AccountNotFound(ob.deliverer_id)
    ELSE IF ob.receiver_id \notin DOMAIN accts THEN AccountNotFound(ob.receiver_id)
    ELSE IF accts[ob.deliverer_id].balance < ob.net_payment
    THEN InsufficientBalance(ob.deliverer_id, ob.net_payment,
                             accts[ob.deliverer_id].balance)
    ELSE Ok

\* C5: what clear_obligation returns is AccountNotFound(deliverer_id) if the
\* deliverer is not registered (also when the receiver is missing too),
\* otherwise AccountNotFound(receiver_id) if the receiver is not registered,
\* otherwise InsufficientBalance{deliverer_id, net_payment, the deliverer's
\* current balance} exactly when that balance < net_payment, otherwise Ok; a
\* call that does not return (an overflow panic) had passed all three checks.
C5_CheckOrder ==
    IsClearObligation =>
        \/ CallResult = Verdict(call.pre, CallOb)
        \/ CallResult = Panic /\ Verdict(call.pre, CallOb) = Ok

C5_Witness ==
    /\ IsClearObligation
    /\ CallOb.deliverer_id # CallOb.receiver_id
    /\ CallOb.deliverer_id \notin DOMAIN call.pre
    /\ CallOb.receiver_id \notin DOMAIN call.pre
    /\ DOMAIN call.pre # {}
    /\ CallResult = AccountNotFound(CallOb.deliverer_id)

\* the accounts left by clear_obligation called on the first k obligations of
\* the batch one after another
RECURSIVE AccountsAfter(_)
AccountsAfter(k) ==
    IF k = 0 THEN call.pre
    ELSE clear_obligation(AccountsAfter(k - 1), call.obligations[k],
                          overflow_checks).accounts

\* C6: a clear_all call that returns gives exactly one result per input
\* obligation, in input order; result i is what clear_obligation returns for
\* obligation i on the accounts left by obligations 1..i-1 called one after
\* another, and the final accounts are those left by the whole sequence: a
\* failure neither undoes earlier transfers nor stops later attempts.
C6_InOrderPartial ==
    (call.op = "clear_all" /\ ~panicked)
    => /\ Len(call.results) = Len(call.obligations)
       /\ \A i \in 1..Len(call.obligations) :
            call.results[i] =
                clear_obligation(AccountsAfter(i - 1), call.obligations[i],
                                 overflow_checks).result
       /\ accounts = AccountsAfter(Len(call.obligations))

C6_Witness ==
    /\ call.op = "clear_all" /\ ~panicked
    /\ \E i, j, k \in 1..Len(call.obligations) :
        /\ i < j /\ j < k
        /\ call.results[i].tag = "Ok"
        /\ call.results[j].tag = "InsufficientBalance"
        /\ call.results[k].tag = "Ok"
        /\ accounts[call.obligations[i].receiver_id].balance
             # call.pre[call.obligations[i].receiver_id].balance
        /\ accounts[call.obligations[k].receiver_id].balance
             # call.pre[call.obligations[k].receiver_id].balance

(* NettingEngine *)

AddTrade ==
    \E t \in Trades :
        LET r == add_trade(accumulators, t, overflow_checks) IN
        /\ ~panicked /\ ~emitted.current
        /\ BagCardinality(trades) < MaxTrades
        /\ accumulators' = r.accumulators
        /\ panicked' = r.panicked
        /\ trades' = trades (+) SetToBag({t})
        /\ emitted' = NotEmitted
        /\ UNCHANGED <<overflow_checks, notNetting>>

ComputeNet ==
    LET r == compute_net(accumulators, overflow_checks) IN
    /\ ~panicked /\ ~emitted.current
    /\ emitted' = r
    /\ panicked' = r.panicked
    /\ UNCHANGED <<overflow_checks, notNetting, accumulators, trades>>

\* NettingEngine::clear
Clear ==
    /\ ~panicked /\ ~emitted.current
    /\ accumulators' = clear(accumulators)
    /\ trades' = EmptyBag
    /\ emitted' = NotEmitted
    /\ UNCHANGED <<overflow_checks, panicked, notNetting>>

\* the caller has looked at the obligations and goes on
DropObligations ==
    /\ ~panicked /\ emitted.current
    /\ emitted' = NotEmitted
    /\ UNCHANGED <<overflow_checks, panicked, notNetting, accumulators, trades>>

NextNetting == AddTrade \/ ComputeNet \/ Clear \/ DropObligations

SpecNetting == Init /\ [][NextNetting]_vars

(* --------------------- NettingEngine: whole cycles --------------------- *)

\* the trades of the previous cycle
MaxPrevious == 1

\* trades of one counterparty pair in both directions, small and at the ends
\* of the price and quantity ranges, and one trade of a second symbol
CycleTrades ==
    { Trade(1, 1, 2, 1, 1), Trade(1, 2, 1, 1, 1),
      Trade(1, 1, 2, I64Max, U64Max), Trade(1, 2, 1, I64Max, U64Max),
      Trade(1, 2, 1, I64Max, 1), Trade(2, 1, 2, 1, 1) }

TradeLists == SeqsUpTo(CycleTrades, MaxTrades)

PreviousCycles == SeqsUpTo(CycleTrades, MaxPrevious) \ {<<>>}

\* a run that ended in a panic
RunPanic(op, previous, ts) ==
    [op |-> op, panicked |-> TRUE, previous |-> previous, trades |-> ts]

\* new(); add_trade(t) for t in ts; compute_net(); compute_net()
NetTrades ==
    /\ ~panicked /\ run = NoRun
    /\ \E ts \in TradeLists :
        LET a == add_trades(NewEngine, ts, 1, overflow_checks)
            net == compute_net(a.accumulators, overflow_checks)
        IN  /\ run' = IF a.panicked \/ net.panicked
                       THEN RunPanic("net", <<>>, ts)
                       ELSE [op |-> "net", panicked |-> FALSE, previous |-> <<>>,
                             trades |-> ts, accumulators |-> a.accumulators,
                             net |-> net.obligations,
                             net_again |-> compute_net(a.accumulators,
                                                       overflow_checks).obligations]
            /\ UNCHANGED <<overflow_checks, panicked, notRun>>

\* new(); add_trade(t) for t in previous; clear(); compute_net();
\* add_trade(t) for t in ts; compute_net()
NetCycle ==
    /\ ~panicked /\ run = NoRun
    /\ \E previous \in PreviousCycles, ts \in TradeLists :
        LET before == add_trades(NewEngine, previous, 1, overflow_checks)
            cleared == clear(before.accumulators)
            net_cleared == compute_net(cleared, overflow_checks)
            a == add_trades(cleared, ts, 1, overflow_checks)
            net == compute_net(a.accumulators, overflow_checks)
        IN  /\ run' = IF \/ before.panicked \/ net_cleared.panicked
                          \/ a.panicked \/ net.panicked
                       THEN RunPanic("cycle", previous, ts)
                       ELSE [op |-> "cycle", panicked |-> FALSE,
                             previous |-> previous, trades |-> ts,
                             accumulators |-> a.accumulators,
                             net_cleared |-> net_cleared.obligations,
                             net |-> net.obligations]
            /\ UNCHANGED <<overflow_checks, panicked, notRun>>

\* the caller has looked at the results and goes on
DropRun ==
    /\ ~panicked /\ run # NoRun
    /\ run' = NoRun
    /\ UNCHANGED <<overflow_checks, panicked, notRun>>

NextCycles == NetTrades \/ NetCycle \/ DropRun

SpecCycles == Init /\ [][NextCycles]_vars


(* ======================= properties: NettingEngine ===================== *)

NetReturned == emitted.current /\ ~emitted.panicked

TradeIds == UNION { {pr[1], pr[2]} : pr \in TradePairs }
AllKeys ==
    { NettingKey(s, pr[1], pr[2]) :
        s \in Symbols, pr \in {q \in TradeIds \X TradeIds : q[1] <= q[2]} }

\* the trades added for a key, in either direction
TradesOf(key) ==
    { t \in BagToSet(trades) :
        /\ t.symbol_hash = key.symbol_hash
        /\ {t.buyer_id, t.seller_id} = {key.lo_id, key.hi_id} }

\* sum of val[t] over the trades of S, a trade added n times counting n times
SumOfTrades(S, val) == SumOfSet(S, [t \in S |-> CopiesIn(t, trades) * val[t]])

\* the quantity lo bought from hi, the quantity lo sold to hi, and the number
\* of add_trade calls for the key
Bought(key) ==
    LET S == { t \in TradesOf(key) : t.buyer_id = key.lo_id } IN
    SumOfTrades(S, [t \in S |-> t.quantity])
Sold(key) ==
    LET S == { t \in TradesOf(key) : t.buyer_id # key.lo_id } IN
    SumOfTrades(S, [t \in S |-> t.quantity])
Calls(key) ==
    LET S == TradesOf(key) IN SumOfTrades(S, [t \in S |-> 1])

\* the exact price * quantity sum of a key, signed as lo's purchases
ExactPayment(key) ==
    LET S == TradesOf(key) IN
    SumOfTrades(S, [t \in S |-> IF t.buyer_id = key.lo_id
                                THEN t.price * t.quantity
                                ELSE -(t.price * t.quantity)])

\* signed_payment(A, t) summed over the trades: buyer credited, seller debited
TradeFlow(A) ==
    LET S == BagToSet(trades) IN
    SumOfTrades(S, [t \in S |->
        (IF t.buyer_id = A THEN t.price * t.quantity ELSE 0)
        - (IF t.seller_id = A THEN t.price * t.quantity ELSE 0)])

\* signed_payment(A, o) summed over the obligations: receiver credited,
\* deliverer debited
ObligationFlow(A, obligations) ==
    SumOfSet(obligations, [o \in obligations |->
        (IF o.receiver_id = A THEN o.net_payment ELSE 0)
        - (IF o.deliverer_id = A THEN o.net_payment ELSE 0)])

\* no key's exact payment, nor its negation, leaves the i64 range
NoSaturation == \A key \in AllKeys : InRange(ExactPayment(key), -I64Max, I64Max)

\* C7: for the trades T added and any account A, the sum over T of
\* signed_payment(A, t) equals the sum over the obligations compute_net
\* returns of signed_payment(A, o).  Stated for the trade sets in which no
\* key's payment leaves the i64 range: what refutes it is not the saturation
\* of net_payment.
C7_NettingConservation ==
    (NetReturned /\ NoSaturation)
    => \A A \in TradeIds : TradeFlow(A) = ObligationFlow(A, emitted.obligations)

ObligationsOf(key) ==
    { o \in emitted.obligations :
        /\ o.symbol_hash = key.symbol_hash
        /\ {o.deliverer_id, o.receiver_id} = {key.lo_id, key.hi_id} }

\* C8: compute_net returns, for every (symbol, unordered counterparty pair),
\* exactly one obligation if the quantities bought and sold within the pair in
\* that symbol differ and none if they offset to zero; every obligation
\* belongs to such a key, and two symbols of one pair are never merged.
C8_OnePerKey ==
    NetReturned =>
        /\ \A key \in AllKeys :
             Cardinality(ObligationsOf(key))
                = IF Bought(key) # Sold(key) THEN 1 ELSE 0
        /\ emitted.obligations = UNION { ObligationsOf(key) : key \in AllKeys }

C8_Witness ==
    /\ NetReturned
    /\ \E k1, k2 \in AllKeys :
        /\ k1.symbol_hash # k2.symbol_hash
        /\ k1.lo_id = k2.lo_id /\ k1.hi_id = k2.hi_id /\ k1.lo_id # k1.hi_id
        /\ Bought(k1) > 0 /\ Bought(k1) = Sold(k1)
        /\ Bought(k2) # Sold(k2)
        /\ Cardinality(emitted.obligations) = 1

Abs(v) == IF v < 0 THEN -v ELSE v

KeyOfObligation(o) ==
    LET pair == IF o.deliverer_id <= o.receiver_id
                THEN <<o.deliverer_id, o.receiver_id>>
                ELSE <<o.receiver_id, o.deliverer_id>> IN
    NettingKey(o.symbol_hash, pair[1], pair[2])

\* C9: for an emitted obligation of key (symbol, lo, hi): if lo bought more
\* from hi than it sold to hi, receiver = lo and deliverer = hi, otherwise
\* receiver = hi and deliverer = lo; net_quantity is the absolute difference of
\* the two quantities and trade_count the number of add_trade calls for the key.
C9_DirectionAndSize ==
    NetReturned =>
        \A o \in emitted.obligations :
            LET key == KeyOfObligation(o) IN
            /\ IF Bought(key) > Sold(key)
               THEN o.receiver_id = key.lo_id /\ o.deliverer_id = key.hi_id
               ELSE o.receiver_id = key.hi_id /\ o.deliverer_id = key.lo_id
            /\ o.net_quantity = Abs(Bought(key) - Sold(key))
            /\ o.trade_count = Calls(key)

\* C10: after any sequence of add_trade and clear calls, every obligation
\* compute_net returns has net_quantity > 0.
C10_NoZeroObligation ==
    NetReturned => \A o \in emitted.obligations : o.net_quantity > 0

\* C11: every obligation compute_net returns, after any sequence of add_trade
\* calls with arbitrary trades, has deliverer_id different from receiver_id.
C11_DistinctParties ==
    NetReturned => \A o \in emitted.obligations : o.deliverer_id # o.receiver_id

\* a trade equal to t but with doubled quantity
Doubled(t) == [t EXCEPT !.quantity = 2 * @]

\* t was added exactly twice, no other trade of its key was, and the doubled
\* quantity is a u64
AddedTwice(t) ==
    /\ CopiesIn(t, trades) = 2
    /\ Calls(KeyOf(t)) = 2
    /\ 2 * t.quantity <= U64Max

\* compute_net on a new engine to which trade was added once
NetOfSingle(trade) ==
    compute_net(add_trade(<<>>, trade, overflow_checks).accumulators,
                overflow_checks).obligations

\* C12: adding the same trade t twice yields, for the key of t, the compute_net
\* result of adding once a trade equal to t but with doubled quantity (same
\* deliverer, receiver, net_quantity and net_payment), except that trade_count
\* is 2 instead of 1.
C12_CanonicalIdempotence ==
    NetReturned =>
        \A t \in BagToSet(trades) :
            AddedTwice(t) =>
                ObligationsOf(KeyOf(t))
                    = { [o EXCEPT !.trade_count = 2] : o \in NetOfSingle(Doubled(t)) }

C12_Witness ==
    /\ NetReturned
    /\ BagCardinality(trades) = 3
    /\ \E t \in BagToSet(trades) :
        /\ AddedTwice(t)
        /\ t.buyer_id # t.seller_id
        /\ t.price > 1
        /\ \E o \in ObligationsOf(KeyOf(t)) : o.trade_count = 2 /\ o.net_quantity = 2
    /\ Cardinality(emitted.obligations) = 2

(* ========================== multilateral_net =========================== *)

\* `a / b` on i128 with b > 0: the quotient is truncated toward zero
TruncDiv(a, b) == IF a >= 0 THEN a \div b ELSE -((-a) \div b)

\* mutant: all obligations go into the group of the first one's symbol
GroupBySymbol_merged(obligations) ==
    [s \in { obligations[i].symbol_hash : i \in DOMAIN obligations \cap {1} } |->
        obligations]

\* by_symbol: the obligations of each symbol, in input order
GroupBySymbol(obligations) ==
    [s \in { obligations[i].symbol_hash : i \in DOMAIN obligations } |->
        SelectSeq(obligations, LAMBDA ob : ob.symbol_hash = s)]

\* adj[current]: the indices of the positive-quantity obligations current
\* delivers, in index order
RECURSIVE EdgesFrom(_, _, _)
EdgesFrom(obs, current, i) ==
    IF i > Len(obs) THEN <<>>
    ELSE (IF obs[i].net_quantity > 0 /\ obs[i].deliverer_id = current
          THEN <<i>> ELSE <<>>) \o EdgesFrom(obs, current, i + 1)

\* dfs_find_cycle, and its loop over the edges of current from the k-th on;
\* visited is handed down by value, which is what the insert before the loop
\* and the remove after it amount to
RECURSIVE dfs_find_cycle(_, _, _, _, _, _)
RECURSIVE dfs_edges(_, _, _, _, _, _)
dfs_find_cycle(obs, current, target, visited, path_edges, is_start) ==
    IF ~is_start /\ current = target THEN [found |-> TRUE, path_edges |-> path_edges]
    ELSE IF current \in visited THEN [found |-> FALSE, path_edges |-> path_edges]
    ELSE dfs_edges(obs, EdgesFrom(obs, current, 1), 1, target,
                   visited \cup {current}, path_edges)
dfs_edges(obs, edges, k, target, visited, path_edges) ==
    IF k > Len(edges) THEN [found |-> FALSE, path_edges |-> path_edges]
    ELSE LET r == dfs_find_cycle(obs, obs[edges[k]].receiver_id, target, visited,
                                 Append(path_edges, edges[k]), FALSE) IN
         IF r.found THEN r
         ELSE dfs_edges(obs, edges, k + 1, target, visited, path_edges)

\* the keys of adj
Starts(obs) == { obs[i].deliverer_id : i \in { j \in DOMAIN obs : obs[j].net_quantity > 0 } }

\* mutant: only the smallest start node is tried
find_cycle_first_start(obs) ==
    { dfs_find_cycle(obs, start, start, {}, <<>>, TRUE).path_edges :
        start \in { st \in Starts(obs) :
                      /\ \A other \in Starts(obs) : st <= other
                      /\ dfs_find_cycle(obs, st, st, {}, <<>>, TRUE).found } }

\* find_cycle: the start nodes are tried in the iteration order of a HashMap,
\* which is unspecified, and the first search that succeeds is returned; the
\* set holds the cycle of every start whose search succeeds, and None is {}
find_cycle(obs) ==
    { dfs_find_cycle(obs, start, start, {}, <<>>, TRUE).path_edges :
        start \in { st \in Starts(obs) :
                      dfs_find_cycle(obs, st, st, {}, <<>>, TRUE).found } }

MinOf(S) == CHOOSE m \in S : \A x \in S : m <= x

OnCycle(cycle_indices, i) == \E k \in DOMAIN cycle_indices : cycle_indices[k] = i

\* cycle_indices.iter().map(|&i| obs[i].net_quantity).min().unwrap_or(0)
MinQty(obs, cycle_indices) ==
    IF cycle_indices = <<>> THEN 0
    ELSE MinOf({ obs[cycle_indices[k]].net_quantity : k \in DOMAIN cycle_indices })

\* (ob.net_payment as i128 * min_qty as i128 / original_qty as i128) as i64
PaymentReduction(ob, min_qty) ==
    WrapI64(TruncDiv(ob.net_payment * min_qty, ob.net_quantity))

\* the body of cancel_cycle's loop on one obligation of the cycle
CancelEdge(ob, min_qty) ==
    [ob EXCEPT !.net_quantity = @ - min_qty,
               !.net_payment = IF ob.net_quantity > 0
                               THEN WrapI64(@ - PaymentReduction(ob, min_qty))
                               ELSE @]

\* mutant: the cycle's minimum is added to the quantities
cancel_cycle_added(obs, cycle_indices) ==
    [i \in DOMAIN obs |->
        IF OnCycle(cycle_indices, i)
        THEN [obs[i] EXCEPT !.net_quantity = @ + MinQty(obs, cycle_indices)]
        ELSE obs[i]]

\* mutant: only the first edge of the cycle is reduced
cancel_cycle_first_edge(obs, cycle_indices) ==
    [i \in DOMAIN obs |->
        IF cycle_indices # <<>> /\ cycle_indices[1] = i
        THEN CancelEdge(obs[i], MinQty(obs, cycle_indices))
        ELSE obs[i]]

\* mutant: every edge of the cycle is cancelled completely
cancel_cycle_zeroed(obs, cycle_indices) ==
    [i \in DOMAIN obs |->
        IF OnCycle(cycle_indices, i)
        THEN CancelEdge(obs[i], obs[i].net_quantity)
        ELSE obs[i]]

cancel_cycle(obs, cycle_indices) ==
    LET min_qty == MinQty(obs, cycle_indices) IN
    IF min_qty = 0 THEN obs
    ELSE [i \in DOMAIN obs |->
            IF OnCycle(cycle_indices, i) THEN CancelEdge(obs[i], min_qty) ELSE obs[i]]

\* `ob.net_payment -= payment_reduction` leaves the i64 range on some edge
CancelOverflows(obs, cycle_indices) ==
    LET min_qty == MinQty(obs, cycle_indices) IN
    /\ min_qty > 0
    /\ \E i \in DOMAIN obs :
        /\ OnCycle(cycle_indices, i)
        /\ OverflowsI64(obs[i].net_payment - PaymentReduction(obs[i], min_qty))

\* obs.retain(|ob| ob.net_quantity > 0)
Retain(obs) == SelectSeq(obs, LAMBDA ob : ob.net_quantity > 0)

\* what the loop and the retain can leave of the obligations of one symbol,
\* one list per choice of cycles find_cycle can make
RECURSIVE LoopResults(_)
LoopResults(obs) ==
    IF find_cycle(obs) = {} THEN { Retain(obs) }
    ELSE UNION { LoopResults(cancel_cycle(obs, cycle_indices)) :
                    cycle_indices \in find_cycle(obs) }

(* ------------------------------ inputs --------------------------------- *)

MaxObs == 3

\* obligations handed to multilateral_net: a triangle 1 -> 2 -> 3 -> 1 and
\* the opposite edge 2 -> 1 in symbol 1, at different quantities and payments
\* per unit, a self-loop, a zero-quantity obligation, and symbol 2
InputObligations ==
    { NetObligation(1, 1, 2, 1, 1, 1), NetObligation(1, 1, 2, 2, -1, 1),
      NetObligation(1, 2, 3, 1, 2, 1), NetObligation(1, 2, 3, 2, 1, 1),
      NetObligation(1, 3, 1, 1, 2, 1), NetObligation(1, 3, 1, 2, 2, 1),
      NetObligation(1, 2, 1, 1, 1, 1), NetObligation(1, 2, 2, 1, 1, 1),
      NetObligation(1, 3, 1, 0, 0, 1), NetObligation(2, 3, 1, 1, 1, 1) }

ObligationLists == SeqsUpTo(InputObligations, MaxObs)

(* ------------------------------ actions -------------------------------- *)

\* multilateral_net is called: the obligations are grouped by symbol
MultilateralNet ==
    /\ ~panicked /\ multilateral.pc = "idle"
    /\ \E obligations \in ObligationLists :
        /\ multilateral' = [NoFrame EXCEPT !.pc = "for",
                                            !.obligations = obligations,
                                            !.by_symbol = GroupBySymbol(obligations)]
        /\ UNCHANGED <<overflow_checks, panicked, notMultilateral>>

\* `for (_symbol, mut obs) in by_symbol`: the next symbol, in the map's order
NextSymbol ==
    /\ ~panicked /\ multilateral.pc = "for"
    /\ \E s \in DOMAIN multilateral.by_symbol :
        /\ multilateral' =
             [multilateral EXCEPT
                 !.pc = "loop", !.symbol = s, !.obs = multilateral.by_symbol[s],
                 !.by_symbol = [t \in DOMAIN multilateral.by_symbol \ {s} |->
                                   multilateral.by_symbol[t]]]
        /\ UNCHANGED <<overflow_checks, panicked, notMultilateral>>

\* find_cycle returned Some(cycle_indices): cancel_cycle
CancelCycle ==
    /\ ~panicked /\ multilateral.pc = "loop"
    /\ \E cycle_indices \in find_cycle(multilateral.obs) :
        /\ multilateral' =
             [multilateral EXCEPT
                 !.before = multilateral.obs, !.cycle_indices = cycle_indices,
                 !.obs = cancel_cycle(multilateral.obs, cycle_indices)]
        /\ panicked' = (overflow_checks
                         /\ CancelOverflows(multilateral.obs, cycle_indices))
        /\ UNCHANGED <<overflow_checks, notMultilateral>>

\* find_cycle returned None: retain the positive quantities, extend the result
RetainAndExtend ==
    /\ ~panicked /\ multilateral.pc = "loop"
    /\ find_cycle(multilateral.obs) = {}
    /\ multilateral' =
         [multilateral EXCEPT
             !.pc = "for", !.symbol = 0, !.obs = <<>>, !.before = <<>>,
             !.cycle_indices = <<>>,
             !.result = @ \o Retain(multilateral.obs)]
    /\ UNCHANGED <<overflow_checks, panicked, notMultilateral>>

\* every symbol is done: multilateral_net returns result
ReturnResult ==
    /\ ~panicked /\ multilateral.pc = "for"
    /\ DOMAIN multilateral.by_symbol = {}
    /\ multilateral' = [multilateral EXCEPT !.pc = "returned"]
    /\ UNCHANGED <<overflow_checks, panicked, notMultilateral>>

\* the caller has looked at the result and goes on
DropResult ==
    /\ ~panicked /\ multilateral.pc = "returned"
    /\ multilateral' = NoFrame
    /\ UNCHANGED <<overflow_checks, panicked, notMultilateral>>

NextMultilateral ==
    \/ MultilateralNet \/ NextSymbol \/ CancelCycle
    \/ RetainAndExtend \/ ReturnResult \/ DropResult

SpecMultilateral == Init /\ [][NextMultilateral]_vars

\* the steps of a multilateral_net call in progress
MultilateralStep == NextSymbol \/ CancelCycle \/ RetainAndExtend \/ ReturnResult

\* obligations of one symbol for the loop of multilateral_net: parallel
\* edges 1 -> 2, the opposite edge 2 -> 1, a self-loop and a zero-quantity
\* obligation
LoopObligations ==
    { NetObligation(1, 1, 2, 1, 1, 1), NetObligation(1, 1, 2, 2, -1, 1),
      NetObligation(1, 2, 1, 1, 1, 1), NetObligation(1, 2, 2, 1, 1, 1),
      NetObligation(1, 2, 1, 0, 0, 1) }

\* multilateral_net is called on obligations of one symbol
MultilateralNetLoops ==
    /\ ~panicked /\ multilateral.pc = "idle"
    /\ \E obligations \in SeqsUpTo(LoopObligations, MaxObs) :
        /\ multilateral' = [NoFrame EXCEPT !.pc = "for",
                                            !.obligations = obligations,
                                            !.by_symbol = GroupBySymbol(obligations)]
        /\ UNCHANGED <<overflow_checks, panicked, notMultilateral>>

NextTermination == MultilateralNetLoops \/ MultilateralStep \/ DropResult

\* a call in progress goes on: the function runs on the caller's thread and
\* waits for nothing
SpecTermination == Init /\ [][NextTermination]_vars /\ WF_vars(MultilateralStep)

(* ====================== properties: multilateral_net =================== *)

\* the sum of val over the elements of a sequence
SumOfSeq(seq, val) == SumOfSet(DOMAIN seq, val)

SumQuantity(seq) == SumOfSeq(seq, [i \in DOMAIN seq |-> seq[i].net_quantity])

\* multilateral_net has returned
MultilateralReturned == multilateral.pc = "returned"

\* a cycle of the current symbol has just been cancelled
JustCancelled == multilateral.pc = "loop" /\ multilateral.cycle_indices # <<>>

\* C13: for every input list, the sum of net_quantity over the result of
\* multilateral_net is <= the sum over the input, and no cycle cancellation
\* increases the sum over the obligations of its symbol.
C13_MonotoneGross ==
    /\ MultilateralReturned =>
         SumQuantity(multilateral.result) <= SumQuantity(multilateral.obligations)
    /\ JustCancelled =>
         SumQuantity(multilateral.obs) <= SumQuantity(multilateral.before)

C13_Witness ==
    /\ MultilateralReturned
    /\ Len(multilateral.obligations) = 3
    /\ Len(multilateral.result) = 2
    /\ SumQuantity(multilateral.result) < SumQuantity(multilateral.obligations)
    /\ \A i \in DOMAIN multilateral.obligations :
         /\ multilateral.obligations[i].net_quantity > 0
         /\ multilateral.obligations[i].deliverer_id
              # multilateral.obligations[i].receiver_id

\* what A receives minus what A delivers in net_payment over a list
PaymentBalance(A, seq) ==
    SumOfSeq(seq, [i \in DOMAIN seq |->
        (IF seq[i].receiver_id = A THEN seq[i].net_payment ELSE 0)
        - (IF seq[i].deliverer_id = A THEN seq[i].net_payment ELSE 0)])

\* C14: for every account A, (sum of net_payment where A is receiver) minus
\* (sum of net_payment where A is deliverer) is the same for the result of
\* multilateral_net as for its input, and is unchanged by each single cycle
\* cancellation.
C14_PaymentEquivalence ==
    \A A \in AccountIds :
        /\ MultilateralReturned =>
             PaymentBalance(A, multilateral.result)
                = PaymentBalance(A, multilateral.obligations)
        /\ JustCancelled =>
             PaymentBalance(A, multilateral.obs) = PaymentBalance(A, multilateral.before)

\* what A receives minus what A delivers in net_quantity of one symbol
DeliveryBalance(A, symbol, seq) ==
    SumOfSeq(seq, [i \in DOMAIN seq |->
        IF seq[i].symbol_hash # symbol THEN 0
        ELSE (IF seq[i].receiver_id = A THEN seq[i].net_quantity ELSE 0)
             - (IF seq[i].deliverer_id = A THEN seq[i].net_quantity ELSE 0)])

InputSymbols == { ob.symbol_hash : ob \in InputObligations }

\* C15: for every account A and every symbol, (sum of net_quantity where A is
\* receiver) minus (sum of net_quantity where A is deliverer) is the same for
\* the result of multilateral_net as for its input; every cycle cancellation
\* on the way preserves it.
C15_DeliveryBalance ==
    \A A \in AccountIds, symbol \in InputSymbols :
        /\ MultilateralReturned =>
             DeliveryBalance(A, symbol, multilateral.result)
                = DeliveryBalance(A, symbol, multilateral.obligations)
        /\ JustCancelled =>
             DeliveryBalance(A, symbol, multilateral.obs)
                = DeliveryBalance(A, symbol, multilateral.before)

C15_Witness ==
    /\ MultilateralReturned
    /\ Len(multilateral.obligations) = 3
    /\ Len(multilateral.result) = 1
    /\ \E i, j \in DOMAIN multilateral.obligations :
         /\ multilateral.obligations[i].net_quantity = 2
         /\ multilateral.obligations[j].net_quantity = 1
         /\ multilateral.obligations[i].deliverer_id
              # multilateral.obligations[i].receiver_id
         /\ multilateral.obligations[j].deliverer_id
              # multilateral.obligations[j].receiver_id
    /\ \E A \in AccountIds :
         DeliveryBalance(A, 1, multilateral.obligations) > 0

(* ========================== SettlementJournal ========================== *)

JournalEntry(sequence, timestamp_ns, event) ==
    [sequence |-> sequence, timestamp_ns |-> timestamp_ns, event |-> event]

\* enum JournalEvent
TradeReceived(trade_id) == [kind |-> "TradeReceived", trade_id |-> trade_id]
NettingCompleted(obligation_count) ==
    [kind |-> "NettingCompleted", obligation_count |-> obligation_count]
ClearingAttempted(obligation_count, success_count, fail_count) ==
    [kind |-> "ClearingAttempted", obligation_count |-> obligation_count,
     success_count |-> success_count, fail_count |-> fail_count]
SettlementCompleted(trade_count) ==
    [kind |-> "SettlementCompleted", trade_count |-> trade_count]
SettlementFailed(trade_id, reason) ==
    [kind |-> "SettlementFailed", trade_id |-> trade_id, reason |-> reason]

\* mutant: the sequence is read after next_seq is incremented
record_incremented(es, seq, timestamp_ns, event, checks) ==
    [entries |-> Append(es, JournalEntry((seq + 1) % (U64Max + 1), timestamp_ns, event)),
     next_seq |-> (seq + 1) % (U64Max + 1), panicked |-> FALSE]

\* mutant: the new entry takes the place of the last one
record_replace_last(es, seq, timestamp_ns, event, checks) ==
    [entries |-> IF es = <<>> THEN <<JournalEntry(seq, timestamp_ns, event)>>
                 ELSE [es EXCEPT ![Len(es)] = JournalEntry(seq, timestamp_ns, event)],
     next_seq |-> (seq + 1) % (U64Max + 1), panicked |-> FALSE]

\* SettlementJournal::record on entries es and next_seq seq; `next_seq += 1`
\* precedes the push
record(es, seq, timestamp_ns, event, checks) ==
    IF checks /\ seq + 1 > U64Max
    THEN [entries |-> es, next_seq |-> seq, panicked |-> TRUE]
    ELSE [entries |-> Append(es, JournalEntry(seq, timestamp_ns, event)),
          next_seq |-> (seq + 1) % (U64Max + 1), panicked |-> FALSE]

\* the read-only accessors; an Option is the empty or the one-element sequence
len(es) == Len(es)
is_empty(es) == es = <<>>
last_entry(es) == IF es = <<>> THEN <<>> ELSE <<es[Len(es)]>>

(* ------------------------------ inputs --------------------------------- *)

\* the number of entries the Vec can hold: its capacity is at most isize::MAX
\* bytes, so it is full before next_seq reaches u64::MAX (MaxEntries < U64Max)
MaxEntries == 2

Timestamps == {0, 1}

JournalEvents ==
    { TradeReceived(1), TradeReceived(2), NettingCompleted(1),
      ClearingAttempted(2, 1, 1), SettlementCompleted(1),
      SettlementFailed(1, "test") }

(* ------------------------------ actions -------------------------------- *)

Record ==
    /\ ~panicked /\ len(entries) < MaxEntries /\ replay = NoReplay
    /\ \E timestamp_ns \in Timestamps, event \in JournalEvents :
        LET r == record(entries, next_seq, timestamp_ns, event, overflow_checks) IN
        /\ entries' = r.entries
        /\ next_seq' = r.next_seq
        /\ panicked' = r.panicked
        /\ recorded' = [op |-> "record", pre |-> entries,
                        timestamp_ns |-> timestamp_ns, event |-> event]
        /\ UNCHANGED <<overflow_checks, notJournal>>

NextJournal == Record

SpecJournal == Init /\ [][NextJournal]_vars

(* ===================== properties: SettlementJournal =================== *)

\* C16: after any sequence of record calls on a new journal, the i-th entry
\* (0-based) has sequence i+1: the first entry has sequence 1 and each entry's
\* sequence is its predecessor's plus 1, in the order of the record calls.
C16_MonotonicSequence ==
    /\ \A i \in 1..len(entries) : entries[i].sequence = i
    /\ \A i \in 1..(len(entries) - 1) :
         entries[i + 1].sequence = entries[i].sequence + 1

C16_Witness ==
    /\ len(entries) = MaxEntries
    /\ entries[1].sequence = 1
    /\ entries[1].timestamp_ns > entries[2].timestamp_ns
    /\ entries[1].event.kind # entries[2].event.kind

\* C17: each record(timestamp_ns, event) call increases len by exactly 1,
\* appends an entry carrying exactly the given timestamp and event as the new
\* last_entry, and leaves every previously recorded entry (sequence,
\* timestamp, event) and their order unchanged.
C17_AppendOnly ==
    recorded.op = "record" =>
        /\ len(entries) = len(recorded.pre) + 1
        /\ SubSeq(entries, 1, len(recorded.pre)) = recorded.pre
        /\ ~is_empty(entries)
        /\ last_entry(entries)[1].timestamp_ns = recorded.timestamp_ns
        /\ last_entry(entries)[1].event = recorded.event

C17_Witness ==
    /\ recorded.op = "record"
    /\ ~is_empty(recorded.pre)
    /\ last_entry(recorded.pre)[1].event.kind = "SettlementFailed"
    /\ last_entry(entries)[1].event.kind = "ClearingAttempted"
    /\ last_entry(recorded.pre)[1].timestamp_ns # recorded.timestamp_ns

(* =========================== ReplayVerifier ============================ *)

\* The hash word.  fnv1a works on bytes of 8 bits and on a u64 of 8 bytes;
\* here the word has HashBytes bytes, and the offset basis and the prime are
\* the low HashBytes bytes of the u64 constants.  The u64 and usize values
\* that are hashed (sequence, timestamp_ns, trade_id, the counts) are small
\* enough to fit the word.
HashBytes == 2

Byte == 256
Word == Byte ^ HashBytes
HalfWord == 16 ^ HashBytes

\* 0xcbf29ce484222325 and 0x100000001b3, least significant byte first
FnvOffsetBasisBytes == <<37, 35, 34, 132, 228, 156, 242, 203>>
FnvPrimeBytes == <<179, 1, 0, 0, 0, 1, 0, 0>>

\* u64::from_le_bytes on the first HashBytes bytes
RECURSIVE from_le_bytes(_)
from_le_bytes(bytes) ==
    IF bytes = <<>> THEN 0 ELSE bytes[1] + Byte * from_le_bytes(Tail(bytes))

FnvOffsetBasis == from_le_bytes(SubSeq(FnvOffsetBasisBytes, 1, HashBytes))
FnvPrime == from_le_bytes(SubSeq(FnvPrimeBytes, 1, HashBytes))

\* u64::to_le_bytes
to_le_bytes(v) == [i \in 1..HashBytes |-> (v \div (Byte ^ (i - 1))) % Byte]

\* a ^ b on the low n bits
RECURSIVE BitXor(_, _, _)
BitXor(a, b, n) ==
    IF n = 0 THEN 0
    ELSE ((a + b) % 2) + 2 * BitXor(a \div 2, b \div 2, n - 1)

\* a | b on the low n bits
RECURSIVE BitOr(_, _, _)
BitOr(a, b, n) ==
    IF n = 0 THEN 0
    ELSE (IF a % 2 = 1 \/ b % 2 = 1 THEN 1 ELSE 0)
         + 2 * BitOr(a \div 2, b \div 2, n - 1)

\* h.wrapping_mul(p): the low word of the product, computed in two halves so
\* that no intermediate value is wider than the product of a half word and p
wrapping_mul(h, p) ==
    ((((h \div HalfWord) * p) % HalfWord) * HalfWord + (h % HalfWord) * p) % Word

\* h ^= b as u64: only the low byte of h changes
XorByte(h, b) == (h - (h % Byte)) + BitXor(h % Byte, b, 8)

\* the loop of fnv1a from byte i on, h being the hash so far
RECURSIVE fnv1a_from(_, _, _)
fnv1a_from(h, data, i) ==
    IF i > Len(data) THEN h
    ELSE fnv1a_from(wrapping_mul(XorByte(h, data[i]), FnvPrime), data, i + 1)

\* lib.rs fnv1a
fnv1a(data) == fnv1a_from(FnvOffsetBasis, data, 1)

ReplayStep(sequence, timestamp_ns, event_kind, content_hash) ==
    [sequence |-> sequence, timestamp_ns |-> timestamp_ns,
     event_kind |-> event_kind, content_hash |-> content_hash]

ReplayDiscrepancy(sequence, expected_hash, actual_hash) ==
    [sequence |-> sequence, expected_hash |-> expected_hash,
     actual_hash |-> actual_hash]

ReplayResult(steps_verified, discrepancies, success, content_hash) ==
    [panicked |-> FALSE, steps_verified |-> steps_verified,
     discrepancies |-> discrepancies, success |-> success,
     content_hash |-> content_hash]

\* verify did not return: `s.sequence + 1` overflowed in an overflow-checked build
VerifyPanic ==
    [panicked |-> TRUE, steps_verified |-> 0, discrepancies |-> <<>>,
     success |-> FALSE, content_hash |-> 0]

\* str::as_bytes of the reasons used (UTF-8)
as_bytes(reason) ==
    CASE reason = "" -> <<>>
      [] reason = "test" -> <<116, 101, 115, 116>>

event_kind_byte(event) ==
    CASE event.kind = "TradeReceived" -> 0
      [] event.kind = "NettingCompleted" -> 1
      [] event.kind = "ClearingAttempted" -> 2
      [] event.kind = "SettlementCompleted" -> 3
      [] event.kind = "SettlementFailed" -> 4

\* v << n on the word: the bits shifted out are lost
ShiftLeft(v, n) == (v * 2 ^ n) % Word

\* the bits of the word; `<< 32` is a shift by half of them and `<< 16` by a
\* quarter
WordBits == 8 * HashBytes

event_payload(event) ==
    CASE event.kind = "TradeReceived" -> event.trade_id
      [] event.kind = "NettingCompleted" -> event.obligation_count
      [] event.kind = "ClearingAttempted" ->
            BitOr(BitOr(ShiftLeft(event.obligation_count, WordBits \div 2),
                        ShiftLeft(event.success_count, WordBits \div 4), WordBits),
                  event.fail_count, WordBits)
      [] event.kind = "SettlementCompleted" -> event.trade_count
      [] event.kind = "SettlementFailed" ->
            BitXor(event.trade_id, fnv1a(as_bytes(event.reason)), WordBits)

step_hash(sequence, timestamp_ns, kind, payload) ==
    fnv1a(to_le_bytes(sequence) \o to_le_bytes(timestamp_ns) \o <<kind>>
          \o to_le_bytes(payload))

result_hash(verified, discrepancy_count) ==
    fnv1a(to_le_bytes(verified) \o to_le_bytes(discrepancy_count))

\* the record calls of a replayed run that differ from the original run's:
\* another timestamp, another variant, another value of one field
ReplayedInputs ==
    { <<0, TradeReceived(1)>>, <<1, TradeReceived(1)>>, <<0, TradeReceived(2)>>,
      <<0, NettingCompleted(1)>>, <<0, SettlementCompleted(1)>>,
      <<0, ClearingAttempted(2, 1, 1)>>, <<0, ClearingAttempted(1, 1, 1)>>,
      <<0, ClearingAttempted(2, 1, 17)>>,
      <<0, SettlementFailed(1, "test")>>, <<0, SettlementFailed(2, "test")>>,
      <<0, SettlementFailed(1, "")>> }

\* the entries the journals of the model can hold
JournalEntries ==
    { JournalEntry(sequence, input[1], input[2]) :
        sequence \in 1..MaxEntries,
        input \in (Timestamps \X JournalEvents) \cup ReplayedInputs }

\* the content hash build_replay_log and compute_journal_hash give each of
\* them, computed once
StepHashes ==
    [entry \in JournalEntries |->
        step_hash(entry.sequence, entry.timestamp_ns, event_kind_byte(entry.event),
                  event_payload(entry.event))]

\* the content hash of one journal entry
EntryHash(entry) == StepHashes[entry]

\* mutant: the steps come out in reverse order
build_replay_log_reversed(es) ==
    [i \in 1..Len(es) |->
        ReplayStep(es[Len(es) + 1 - i].sequence, es[Len(es) + 1 - i].timestamp_ns,
                   event_kind_byte(es[Len(es) + 1 - i].event),
                   EntryHash(es[Len(es) + 1 - i]))]

\* build_replay_log on the entries of a journal
build_replay_log(es) ==
    [i \in 1..Len(es) |->
        ReplayStep(es[i].sequence, es[i].timestamp_ns,
                   event_kind_byte(es[i].event), EntryHash(es[i]))]

Min(a, b) == IF a <= b THEN a ELSE b

\* the loop of verify from step i on: the discrepancies pushed and the count
\* of verified steps
RECURSIVE compare_steps(_, _, _, _, _, _)
compare_steps(expected, actual, i, min_len, discrepancies, verified) ==
    IF i > min_len
    THEN [discrepancies |-> discrepancies, verified |-> verified]
    ELSE IF expected[i].content_hash # actual[i].content_hash
    THEN compare_steps(expected, actual, i + 1, min_len,
                       Append(discrepancies,
                              ReplayDiscrepancy(expected[i].sequence,
                                                expected[i].content_hash,
                                                actual[i].content_hash)),
                       verified)
    ELSE compare_steps(expected, actual, i + 1, min_len, discrepancies, verified + 1)

\* slice::get, Option::or
Get(log, i) == IF i \in DOMAIN log THEN <<log[i]>> ELSE <<>>
OptionOr(a, b) == IF a # <<>> THEN a ELSE b

\* the tail of verify: the length-mismatch discrepancy and the result
verify_result(expected, actual, min_len, loop, checks) ==
    LET last == OptionOr(Get(expected, min_len), Get(actual, min_len))
        overflow == /\ Len(expected) # Len(actual) /\ min_len > 0
                    /\ last # <<>> /\ last[1].sequence + 1 > U64Max
        seq == IF min_len > 0
               THEN IF last # <<>> THEN (last[1].sequence + 1) % (U64Max + 1) ELSE 1
               ELSE 1
        discrepancies ==
            IF Len(expected) # Len(actual)
            THEN Append(loop.discrepancies,
                        ReplayDiscrepancy(seq, Len(expected), Len(actual)))
            ELSE loop.discrepancies
    IN  IF checks /\ overflow THEN VerifyPanic
        ELSE ReplayResult(loop.verified, discrepancies, discrepancies = <<>>,
                          result_hash(loop.verified, Len(discrepancies)))

\* mutant: the loop starts at the second step
verify_skip_first(expected, actual, checks) ==
    LET min_len == Min(Len(expected), Len(actual)) IN
    verify_result(expected, actual, min_len,
                  compare_steps(expected, actual, 2, min_len, <<>>, 0), checks)

\* mutant: the loop stops after the first discrepancy
verify_short_circuit(expected, actual, checks) ==
    LET min_len == Min(Len(expected), Len(actual))
        differ == { i \in 1..min_len : expected[i].content_hash # actual[i].content_hash }
        stop == IF differ = {} THEN min_len ELSE MinOf(differ) IN
    verify_result(expected, actual, min_len,
                  compare_steps(expected, actual, 1, stop, <<>>, 0), checks)

verify(expected, actual, checks) ==
    LET min_len == Min(Len(expected), Len(actual)) IN
    verify_result(expected, actual, min_len,
                  compare_steps(expected, actual, 1, min_len, <<>>, 0), checks)

\* mutant: the step hash is chained in front of the cumulative hash
RECURSIVE journal_hash_swapped_from(_, _, _)
journal_hash_swapped_from(cumulative, es, i) ==
    IF i > Len(es) THEN cumulative
    ELSE journal_hash_swapped_from(
             fnv1a(to_le_bytes(EntryHash(es[i])) \o to_le_bytes(cumulative)),
             es, i + 1)

compute_journal_hash_swapped(es) == journal_hash_swapped_from(FnvOffsetBasis, es, 1)

\* the loop of compute_journal_hash from entry i on
RECURSIVE journal_hash_from(_, _, _)
journal_hash_from(cumulative, es, i) ==
    IF i > Len(es) THEN cumulative
    ELSE journal_hash_from(
             fnv1a(to_le_bytes(cumulative) \o to_le_bytes(EntryHash(es[i]))),
             es, i + 1)

\* compute_journal_hash on the entries of a journal
compute_journal_hash(es) == journal_hash_from(FnvOffsetBasis, es, 1)

(* ------------------------------ inputs --------------------------------- *)

\* the record calls that built the entries es
CallsOf(es) == [i \in 1..Len(es) |-> <<es[i].timestamp_ns, es[i].event>>]

\* the entries of a new journal after the record calls `calls`
RECURSIVE Recorded(_, _)
Recorded(calls, checks) ==
    IF calls = <<>> THEN <<>>
    ELSE LET n == Len(calls)
             before == Recorded(SubSeq(calls, 1, n - 1), checks) IN
         record(before, Len(before) + 1, calls[n][1], calls[n][2], checks).entries

\* the journals of the replayed runs: the record calls of the original run,
\* with at most one of them made with another input
ReplayedJournals(es, checks) ==
    { Recorded(CallsOf(es), checks) }
    \cup { Recorded([CallsOf(es) EXCEPT ![k] = input], checks) :
              k \in 1..Len(es), input \in ReplayedInputs }

\* hand-made logs: the fields of a ReplayStep are public
MaxSteps == 2

Steps == { ReplayStep(s, 0, 0, h) : s \in {1, U64Max}, h \in {0, 1} }

Logs == SeqsUpTo(Steps, MaxSteps)

(* ------------------------------ actions -------------------------------- *)

BuildReplayLog ==
    /\ ~panicked /\ replay = NoReplay
    /\ replay' = [op |-> "build_replay_log", log |-> build_replay_log(entries)]
    /\ UNCHANGED <<overflow_checks, panicked, notReplay>>

\* verify on the replay logs of the journal and of the journal of a replayed run
VerifyJournals ==
    /\ ~panicked /\ replay = NoReplay
    /\ \E replayed \in ReplayedJournals(entries, overflow_checks) :
        LET expected == build_replay_log(entries)
            actual == build_replay_log(replayed)
            r == verify(expected, actual, overflow_checks) IN
        /\ replay' = [op |-> "verify", replayed |-> replayed, expected |-> expected,
                      actual |-> actual, result |-> r]
        /\ panicked' = r.panicked
    /\ UNCHANGED <<overflow_checks, notReplay>>

\* verify on two logs of any origin
Verify ==
    /\ ~panicked /\ replay = NoReplay
    /\ \E expected \in Logs, actual \in Logs :
        LET r == verify(expected, actual, overflow_checks) IN
        /\ replay' = [op |-> "verify", expected |-> expected, actual |-> actual,
                      result |-> r]
        /\ panicked' = r.panicked
    /\ UNCHANGED <<overflow_checks, notReplay>>

ComputeJournalHash ==
    /\ ~panicked /\ replay = NoReplay
    /\ replay' = [op |-> "compute_journal_hash",
                  hash |-> compute_journal_hash(entries)]
    /\ UNCHANGED <<overflow_checks, panicked, notReplay>>

\* the caller has looked at the result of the last call and goes on
DropReplay ==
    /\ ~panicked /\ replay # NoReplay
    /\ replay' = NoReplay
    /\ UNCHANGED <<overflow_checks, panicked, notReplay>>

\* the verifier on a journal as it is recorded
NextReplay ==
    Record \/ BuildReplayLog \/ VerifyJournals \/ ComputeJournalHash \/ DropReplay

SpecReplay == Init /\ [][NextReplay]_vars

\* verify on its own
NextVerify == Verify \/ DropReplay

SpecVerify == Init /\ [][NextVerify]_vars

(* ========================== DefaultWaterfall =========================== *)

WaterfallConfig(defaulter_margin, defaulter_fund, ccp_first_loss, members_fund, ccp_capital) ==
    [constructed |-> TRUE, defaulter_margin |-> defaulter_margin,
     defaulter_fund |-> defaulter_fund, ccp_first_loss |-> ccp_first_loss,
     members_fund |-> members_fund, ccp_capital |-> ccp_capital]

LayerAbsorption(layer, capacity, absorbed, remaining_after) ==
    [layer |-> layer, capacity |-> capacity, absorbed |-> absorbed,
     remaining_after |-> remaining_after]

\* the array `capacities` of absorb_loss and of zero_result
Capacities(cfg) ==
    << <<"DefaulterMargin", cfg.defaulter_margin>>,
       <<"DefaulterFund", cfg.defaulter_fund>>,
       <<"CcpFirstLoss", cfg.ccp_first_loss>>,
       <<"MembersFund", cfg.members_fund>>,
       <<"CcpCapital", cfg.ccp_capital>> >>

\* WaterfallResult (content_hash, a hash of total_loss and total_absorbed, is
\* not carried), plus the panic of an overflow-checked build
WaterfallResult(total_loss, total_absorbed, layers, fully_covered, shortfall) ==
    [op |-> "absorb_loss", panicked |-> FALSE, total_loss |-> total_loss,
     total_absorbed |-> total_absorbed, layers |-> layers,
     fully_covered |-> fully_covered, shortfall |-> shortfall]

AbsorbPanic(loss) ==
    [op |-> "absorb_loss", panicked |-> TRUE, total_loss |-> loss,
     total_absorbed |-> 0, layers |-> <<>>, fully_covered |-> FALSE, shortfall |-> 0]

\* mutant: a loss that needs no layer is reported as not covered
zero_result_uncovered(cfg, loss) ==
    WaterfallResult(loss, 0,
        [i \in DOMAIN Capacities(cfg) |->
            LayerAbsorption(Capacities(cfg)[i][1], Capacities(cfg)[i][2], 0, 0)],
        FALSE, 0)

zero_result(cfg, loss) ==
    WaterfallResult(loss, 0,
        [i \in DOMAIN Capacities(cfg) |->
            LayerAbsorption(Capacities(cfg)[i][1], Capacities(cfg)[i][2], 0, 0)],
        TRUE, 0)

\* the loop of absorb_loss from the i-th layer on; `remaining -= absorbed` is
\* an i64 subtraction
RECURSIVE absorb_layers(_, _, _, _, _)
absorb_layers(capacities, i, remaining, layers, checks) ==
    IF i > Len(capacities)
    THEN [panicked |-> FALSE, remaining |-> remaining, layers |-> layers]
    ELSE LET layer == capacities[i][1]
             capacity == capacities[i][2]
             absorbed == IF remaining <= capacity THEN remaining ELSE capacity
         IN  IF checks /\ OverflowsI64(remaining - absorbed)
             THEN [panicked |-> TRUE, remaining |-> remaining, layers |-> layers]
             ELSE absorb_layers(capacities, i + 1, WrapI64(remaining - absorbed),
                      Append(layers,
                             LayerAbsorption(layer, capacity, absorbed,
                                             WrapI64(remaining - absorbed))),
                      checks)

\* mutant: the layers are charged from the last one to the first
absorb_loss_from_last(cfg, loss, checks) ==
    IF loss <= 0 THEN zero_result(cfg, loss)
    ELSE LET reversed == [i \in 1..5 |-> Capacities(cfg)[6 - i]]
             r == absorb_layers(reversed, 1, loss, <<>>, checks)
         IN  IF r.panicked \/ (checks /\ OverflowsI64(loss - r.remaining))
             THEN AbsorbPanic(loss)
             ELSE WaterfallResult(loss, WrapI64(loss - r.remaining),
                                  [i \in 1..5 |-> r.layers[6 - i]],
                                  r.remaining = 0, r.remaining)

absorb_loss(cfg, loss, checks) ==
    IF loss <= 0 THEN zero_result(cfg, loss)
    ELSE LET r == absorb_layers(Capacities(cfg), 1, loss, <<>>, checks) IN
         IF r.panicked \/ (checks /\ OverflowsI64(loss - r.remaining))
         THEN AbsorbPanic(loss)
         ELSE WaterfallResult(loss, WrapI64(loss - r.remaining), r.layers,
                              r.remaining = 0, r.remaining)

\* the configuration left when the layers give up what result absorbed
Depleted(cfg, result) ==
    IF result.panicked THEN cfg
    ELSE WaterfallConfig(cfg.defaulter_margin - result.layers[1].absorbed,
                         cfg.defaulter_fund - result.layers[2].absorbed,
                         cfg.ccp_first_loss - result.layers[3].absorbed,
                         cfg.members_fund - result.layers[4].absorbed,
                         cfg.ccp_capital - result.layers[5].absorbed)

\* mutant: each loss is absorbed by what the losses before it left
RECURSIVE absorb_losses_depleting(_, _, _)
absorb_losses_depleting(cfg, losses, checks) ==
    IF losses = <<>> THEN <<>>
    ELSE LET r == absorb_loss(cfg, Head(losses), checks) IN
         <<r>> \o absorb_losses_depleting(Depleted(cfg, r), Tail(losses), checks)

\* losses.iter().map(|&l| self.absorb_loss(l)).collect()
absorb_losses(cfg, losses, checks) ==
    [i \in DOMAIN losses |-> absorb_loss(cfg, losses[i], checks)]

\* the Vec exists only if no element panicked
BatchAbsorption(losses, results) ==
    LET unwound == \E i \in DOMAIN results : results[i].panicked IN
    [op |-> "absorb_losses", panicked |-> unwound, losses |-> losses,
     results |-> IF unwound THEN <<>> ELSE results]

(* ------------------------------ inputs --------------------------------- *)

MaxLosses == 2

\* losses handed to absorb_losses: one a first layer can take, one that
\* exhausts every configuration
BatchLosses == {1, I64Max}

LossLists == SeqsUpTo(BatchLosses, MaxLosses)

\* capacities: the ends of the i64 range and the values around zero
CapacityValues == {I64Min, -1, 0, 1, I64Max}

WaterfallConfigs ==
    { WaterfallConfig(c[1], c[2], c[3], c[4], c[5]) :
        c \in CapacityValues \X CapacityValues \X CapacityValues
               \X CapacityValues \X CapacityValues }

Losses == I64

(* ------------------------------ actions -------------------------------- *)

\* DefaultWaterfall::new
NewWaterfall ==
    /\ ~panicked /\ ~config.constructed
    /\ \E cfg \in WaterfallConfigs :
        /\ config' = cfg
        /\ UNCHANGED <<overflow_checks, panicked, waterfall_result, notWaterfall>>

AbsorbLoss ==
    /\ ~panicked /\ config.constructed /\ waterfall_result = NoAbsorption
    /\ \E loss \in Losses :
        LET r == absorb_loss(config, loss, overflow_checks) IN
        /\ waterfall_result' = r
        /\ panicked' = r.panicked
        /\ UNCHANGED <<overflow_checks, config, notWaterfall>>

AbsorbLosses ==
    /\ ~panicked /\ config.constructed /\ waterfall_result = NoAbsorption
    /\ \E losses \in LossLists :
        LET r == BatchAbsorption(losses,
                                 absorb_losses(config, losses, overflow_checks)) IN
        /\ waterfall_result' = r
        /\ panicked' = r.panicked
        /\ UNCHANGED <<overflow_checks, config, notWaterfall>>

\* the caller has looked at the result and goes on
DropAbsorption ==
    /\ ~panicked /\ waterfall_result # NoAbsorption
    /\ waterfall_result' = NoAbsorption
    /\ UNCHANGED <<overflow_checks, panicked, config, notWaterfall>>

NextWaterfall == NewWaterfall \/ AbsorbLoss \/ AbsorbLosses \/ DropAbsorption

SpecWaterfall == Init /\ [][NextWaterfall]_vars

(* ===================== properties: DefaultWaterfall ==================== *)

\* absorb_loss has returned a result
Absorbed == waterfall_result.op = "absorb_loss" /\ ~waterfall_result.panicked

Max(a, b) == IF a >= b THEN a ELSE b

SumAbsorbed(layers) == SumOfSeq(layers, [i \in DOMAIN layers |-> layers[i].absorbed])

\* C18: for every configuration and every loss (positive, zero or negative),
\* the result of absorb_loss satisfies total_absorbed + shortfall =
\* max(loss, 0), and the sum of absorbed over the five layers equals
\* total_absorbed.
C18_AccountingTotals ==
    Absorbed =>
        /\ waterfall_result.total_absorbed + waterfall_result.shortfall
             = Max(waterfall_result.total_loss, 0)
        /\ SumAbsorbed(waterfall_result.layers) = waterfall_result.total_absorbed

\* no subtraction of the call leaves the i64 range
AbsorbInRange ==
    ~absorb_loss(config, waterfall_result.total_loss, TRUE).panicked

\* C19: for every configuration of i64 capacities and every loss, each of the
\* five LayerAbsorption entries returned by absorb_loss satisfies
\* 0 <= absorbed <= capacity, and the layers appear in the fixed order
\* DefaulterMargin, DefaulterFund, CcpFirstLoss, MembersFund, CcpCapital with
\* their configured capacities.  Stated for the calls whose arithmetic stays in
\* the i64 range: what refutes it is not an overflow.
C19_LayerBounds ==
    (Absorbed /\ AbsorbInRange) =>
        /\ Len(waterfall_result.layers) = 5
        /\ \A i \in DOMAIN waterfall_result.layers :
             /\ 0 <= waterfall_result.layers[i].absorbed
             /\ waterfall_result.layers[i].absorbed
                  <= waterfall_result.layers[i].capacity
             /\ waterfall_result.layers[i].layer = Capacities(config)[i][1]
             /\ waterfall_result.layers[i].capacity = Capacities(config)[i][2]

\* C20: in every absorb_loss result with loss > 0, layers[0].remaining_after =
\* loss - layers[0].absorbed, layers[i].remaining_after =
\* layers[i-1].remaining_after - layers[i].absorbed for i in 1..4,
\* remaining_after never increases from one layer to the next, and shortfall
\* equals layers[4].remaining_after.  Stated for the calls whose arithmetic
\* stays in the i64 range: what refutes it is not an overflow.
C20_RemainingChain ==
    (Absorbed /\ AbsorbInRange /\ waterfall_result.total_loss > 0) =>
        LET layers == waterfall_result.layers IN
        /\ layers[1].remaining_after = waterfall_result.total_loss - layers[1].absorbed
        /\ \A i \in 2..5 :
             /\ layers[i].remaining_after
                  = layers[i - 1].remaining_after - layers[i].absorbed
             /\ layers[i].remaining_after <= layers[i - 1].remaining_after
        /\ waterfall_result.shortfall = layers[5].remaining_after

\* absorb_losses has returned its results
BatchAbsorbed == waterfall_result.op = "absorb_losses" /\ ~waterfall_result.panicked

\* C21: absorb_losses(list) returns one result per input in input order, and
\* result i equals absorb_loss(list[i]) computed against the full capacities
\* of the configuration as it is after the call, whatever losses were
\* processed before: no call changes the configuration or depletes a layer.
C21_Independence ==
    BatchAbsorbed =>
        /\ Len(waterfall_result.results) = Len(waterfall_result.losses)
        /\ \A i \in DOMAIN waterfall_result.losses :
             /\ waterfall_result.results[i]
                  = absorb_loss(config, waterfall_result.losses[i], overflow_checks)
             /\ \A k \in 1..5 :
                  waterfall_result.results[i].layers[k].capacity
                     = Capacities(config)[k][2]

C21_Witness ==
    /\ BatchAbsorbed
    /\ waterfall_result.losses = <<I64Max, 1>>
    /\ \A k \in 1..5 : Capacities(config)[k][2] >= 0
    /\ waterfall_result.results[1].shortfall > 0
    /\ waterfall_result.results[1].layers[1].absorbed = 1
    /\ waterfall_result.results[2].fully_covered
    /\ waterfall_result.results[2].layers[1].absorbed = 1

(* ============================ MarginEngine ============================= *)

\* the f64 values of the rates and scenarios: a dyadic rational num / den,
\* whose product with an integer of the model is exact in f64, NaN, or
\* +infinity
Finite(num, den) == [class |-> "finite", num |-> num, den |-> den]
NaN == [class |-> "nan", num |-> 0, den |-> 1]
Infinity == [class |-> "inf", num |-> 0, den |-> 1]

MarginConfig(initial_margin_rate, variation_margin_rate, stress_scenarios, margin_floor) ==
    [initial_margin_rate |-> initial_margin_rate,
     variation_margin_rate |-> variation_margin_rate,
     stress_scenarios |-> stress_scenarios, margin_floor |-> margin_floor]

\* MarginRequirement, plus the panic of an overflow-checked build
MarginRequirement(account_id, initial, variation, stress, total, content_hash) ==
    [panicked |-> FALSE, account_id |-> account_id, initial_margin |-> initial,
     variation_margin |-> variation, stress_margin |-> stress,
     total_margin |-> total, content_hash |-> content_hash]

MarginPanic ==
    [panicked |-> TRUE, account_id |-> 0, initial_margin |-> 0,
     variation_margin |-> 0, stress_margin |-> 0, total_margin |-> 0,
     content_hash |-> 0]

\* `v as i64` of an f64: truncated toward zero and saturated, NaN is 0
FloatAsI64(v) == IF v < I64Min THEN I64Min ELSE IF v > I64Max THEN I64Max ELSE v

\* (n as f64 * rate) as i64
MulAsI64(n, rate) ==
    CASE rate.class = "nan" -> 0
      [] rate.class = "inf" ->
            IF n = 0 THEN 0 ELSE IF n > 0 THEN I64Max ELSE I64Min
      [] OTHER -> FloatAsI64(TruncDiv(n * rate.num, rate.den))

\* i64::unsigned_abs: a u64
unsigned_abs(v) == IF v < 0 THEN -v ELSE v

\* i64::abs in a build without overflow checks: i64::MIN stays i64::MIN
wrapping_abs(v) == WrapI64(unsigned_abs(v))

saturating_add(a, b) == FloatAsI64(a + b)
saturating_sub(a, b) == FloatAsI64(a - b)

\* the loop of worst_case_stress from the i-th scenario on; `shocked -
\* notional` and `.abs()` are i64 operations
RECURSIVE stress_from(_, _, _, _, _)
stress_from(scenarios, i, notional, worst, checks) ==
    IF i > Len(scenarios) THEN [panicked |-> FALSE, value |-> worst]
    ELSE LET shocked == MulAsI64(notional, scenarios[i])
             difference == shocked - notional
             loss == wrapping_abs(WrapI64(difference))
             gt == IF loss > worst THEN 1 ELSE 0
         IN  IF checks /\ (OverflowsI64(difference) \/ difference = I64Min)
             THEN [panicked |-> TRUE, value |-> worst]
             ELSE stress_from(scenarios, i + 1, notional,
                              gt * loss + (1 - gt) * worst, checks)

worst_case_stress(cfg, notional, checks) ==
    stress_from(cfg.stress_scenarios, 1, notional, 0, checks)

\* fnv1a over account_id.to_le_bytes() followed by total.to_le_bytes()
hash_requirement(account_id, total) ==
    fnv1a(to_le_bytes(account_id) \o to_le_bytes(total % Word))

\* mutant: the floor is left out of the maximum
total_margin_unfloored(cfg, initial, variation, stress) ==
    Max(saturating_add(initial, variation), stress)

\* base.max(stress).max(self.config.margin_floor)
total_margin(cfg, initial, variation, stress) ==
    Max(Max(saturating_add(initial, variation), stress), cfg.margin_floor)

compute_obligation_margin(cfg, obligation, checks) ==
    LET notional == WrapI64(unsigned_abs(obligation.net_payment))
        initial == MulAsI64(notional, cfg.initial_margin_rate)
        variation == MulAsI64(notional, cfg.variation_margin_rate)
        stress == worst_case_stress(cfg, notional, checks)
        total == total_margin(cfg, initial, variation, stress.value)
    IN  IF stress.panicked THEN MarginPanic
        ELSE MarginRequirement(obligation.deliverer_id, initial, variation,
                               stress.value, total,
                               hash_requirement(obligation.deliverer_id, total))

\* the loop of compute_portfolio_margin from the i-th obligation on;
\* `ob.net_payment.abs()` is an i64 operation
RECURSIVE exposure_from(_, _, _, _, _, _)
exposure_from(obligations, i, account_id, total_notional, net_exposure, checks) ==
    IF i > Len(obligations)
    THEN [panicked |-> FALSE, total_notional |-> total_notional,
          net_exposure |-> net_exposure]
    ELSE LET ob == obligations[i] IN
         IF ob.deliverer_id # account_id /\ ob.receiver_id # account_id
         THEN exposure_from(obligations, i + 1, account_id, total_notional,
                            net_exposure, checks)
         ELSE IF checks /\ ob.net_payment = I64Min
         THEN [panicked |-> TRUE, total_notional |-> total_notional,
               net_exposure |-> net_exposure]
         ELSE exposure_from(obligations, i + 1, account_id,
                  saturating_add(total_notional, wrapping_abs(ob.net_payment)),
                  IF ob.deliverer_id = account_id
                  THEN saturating_sub(net_exposure, ob.net_payment)
                  ELSE saturating_add(net_exposure, ob.net_payment),
                  checks)

compute_portfolio_margin(cfg, account_id, obligations, checks) ==
    LET e == exposure_from(obligations, 1, account_id, 0, 0, checks)
        initial == MulAsI64(e.total_notional, cfg.initial_margin_rate)
        variation == MulAsI64(unsigned_abs(e.net_exposure), cfg.variation_margin_rate)
        stress == worst_case_stress(cfg, e.total_notional, checks)
        total == total_margin(cfg, initial, variation, stress.value)
    IN  IF e.panicked \/ stress.panicked THEN MarginPanic
        ELSE MarginRequirement(account_id, initial, variation, stress.value, total,
                               hash_requirement(account_id, total))

(* ------------------------------ inputs --------------------------------- *)

MaxScenarios == 1
MaxPortfolio == 2

\* a negative rate, a fraction, a rate above one, NaN and +infinity
Rates == { Finite(-1, 1), Finite(1, 2), Finite(3, 2), NaN, Infinity }

\* a shock that changes the sign, one that raises the price by half, and
\* +infinity
Scenarios == { Finite(-1, 1), Finite(3, 2), Infinity }

MarginFloors == {I64Min, 0, I64Max}

MarginConfigs ==
    { MarginConfig(i, v, sc, f) :
        i \in Rates, v \in Rates, sc \in SeqsUpTo(Scenarios, MaxScenarios),
        f \in MarginFloors }

\* obligations between accounts 1 and 2 in both directions, with payments of
\* both signs and at the ends of the i64 range
MarginObligations ==
    { NetObligation(1, 1, 2, 1, I64Min, 1), NetObligation(1, 1, 2, 1, 1, 1),
      NetObligation(1, 2, 1, 1, I64Max, 1), NetObligation(1, 2, 1, 1, -1, 1) }

Portfolios == SeqsUpTo(MarginObligations, MaxPortfolio)

\* an account of the obligations and one that is in none of them
MarginAccounts == {1, 3}

(* ------------------------------ actions -------------------------------- *)

ComputeObligationMargin ==
    /\ ~panicked /\ margin = NoMargin
    /\ \E cfg \in MarginConfigs, ob \in MarginObligations :
        /\ margin' = [op |-> "compute_obligation_margin", config |-> cfg,
                       account_id |-> ob.deliverer_id, obligations |-> <<ob>>,
                       requirement |->
                           compute_obligation_margin(cfg, ob, overflow_checks)]
        /\ UNCHANGED <<overflow_checks, panicked, notMargin>>

ComputePortfolioMargin ==
    /\ ~panicked /\ margin = NoMargin
    /\ \E cfg \in MarginConfigs, id \in MarginAccounts, obs \in Portfolios :
        /\ margin' = [op |-> "compute_portfolio_margin", config |-> cfg,
                       account_id |-> id, obligations |-> obs,
                       requirement |->
                           compute_portfolio_margin(cfg, id, obs, overflow_checks)]
        /\ UNCHANGED <<overflow_checks, panicked, notMargin>>

\* the caller has looked at the requirement and goes on
DropRequirement ==
    /\ ~panicked /\ margin # NoMargin
    /\ margin' = NoMargin
    /\ UNCHANGED <<overflow_checks, panicked, notMargin>>

NextMargin == ComputeObligationMargin \/ ComputePortfolioMargin \/ DropRequirement

SpecMargin == Init /\ [][NextMargin]_vars

(* ======================== properties: MarginEngine ===================== *)

\* a margin computation has returned its requirement
MarginReturned == margin.op # "none" /\ ~margin.requirement.panicked

\* the account is neither deliverer nor receiver of any obligation
Unrelated ==
    \A i \in DOMAIN margin.obligations :
        /\ margin.obligations[i].deliverer_id # margin.account_id
        /\ margin.obligations[i].receiver_id # margin.account_id

\* C32: for both compute_obligation_margin and compute_portfolio_margin,
\* total_margin = max(saturating_add(initial_margin, variation_margin),
\* stress_margin, margin_floor), hence total_margin >= margin_floor for every
\* input; an account that is neither deliverer nor receiver of any obligation
\* gets initial, variation and stress margin 0.
C32_MarginTotal ==
    MarginReturned =>
        LET r == margin.requirement
            sum == r.initial_margin + r.variation_margin
            base == IF sum > I64Max THEN I64Max ELSE IF sum < I64Min THEN I64Min ELSE sum
        IN  /\ \A m \in {base, r.stress_margin, margin.config.margin_floor} :
                 r.total_margin >= m
            /\ r.total_margin \in {base, r.stress_margin, margin.config.margin_floor}
            /\ r.total_margin >= margin.config.margin_floor
            /\ Unrelated =>
                 /\ r.initial_margin = 0
                 /\ r.variation_margin = 0
                 /\ r.stress_margin = 0

C32_Witness ==
    /\ MarginReturned
    /\ margin.op = "compute_portfolio_margin"
    /\ Len(margin.obligations) = MaxPortfolio
    /\ Unrelated
    /\ margin.config.initial_margin_rate = Infinity
    /\ margin.config.variation_margin_rate = NaN
    /\ margin.config.stress_scenarios = <<Infinity>>
    /\ margin.config.margin_floor = I64Max
    /\ margin.requirement.total_margin = I64Max

(* ================== properties: ClearingHouse, continued ================ *)

\* the balance of account a after an exact transfer of the call's net_payment
ExactBalance(a) ==
    call.pre[a].balance
    + (IF a = CallOb.receiver_id THEN CallOb.net_payment ELSE 0)
    - (IF a = CallOb.deliverer_id THEN CallOb.net_payment ELSE 0)

\* C28: clear_obligation never overflows or aborts: for every pair of
\* registered accounts with arbitrary i64 balances and every obligation with
\* an arbitrary i64 net_payment the call returns Ok or a ClearingError, and
\* whenever it returns Ok both resulting balances are the mathematically exact
\* old balance minus / plus net_payment and lie within the i64 range.
C28_NoOverflow ==
    (/\ IsClearObligation
     /\ CallOb.deliverer_id \in DOMAIN call.pre
     /\ CallOb.receiver_id \in DOMAIN call.pre)
    => /\ CallResult.tag \in {"Ok", "AccountNotFound", "InsufficientBalance"}
       /\ CallResult = Ok =>
            \A a \in {CallOb.deliverer_id, CallOb.receiver_id} :
                /\ accounts[a].balance = ExactBalance(a)
                /\ InRange(accounts[a].balance, I64Min, I64Max)

\* the step is a register_account call
Registers == call'.op = "register_account" /\ call.op = "new"

\* C30: register_account(id, b) is insert-or-replace: afterwards
\* get_account(id) has account_id = id, balance = b and margin_held = 0
\* whether or not id was registered before, and every other account is
\* unchanged; an id is registered only by register_account (a new clearing
\* house has no account, so get_account of a never-registered id returns
\* none), and no operation removes an account.
C30_InsertOrReplace ==
    [][/\ \A a \in AccountIds :
            get_account(accounts, a) # <<>> => get_account(accounts', a) # <<>>
       /\ Registers =>
            /\ get_account(accounts', call'.id)
                 = <<[account_id |-> call'.id, balance |-> call'.balance,
                      margin_held |-> 0]>>
            /\ \A a \in AccountIds \ {call'.id} :
                 get_account(accounts', a) = get_account(accounts, a)
       /\ ~Registers =>
            \A a \in AccountIds :
                get_account(accounts, a) = <<>> => get_account(accounts', a) = <<>>
      ]_vars

\* a registered account whose balance a transfer has changed is registered
\* again with another balance, next to an account that keeps its own
C30_Witness ==
    /\ call.op = "register_account"
    /\ call.id \in DOMAIN call.pre
    /\ call.pre[call.id].balance # call.balance
    /\ accounts[call.id].balance = call.balance
    /\ \E a \in DOMAIN accounts \ {call.id} : accounts[a].balance # 0
    /\ get_account(accounts, 3) = <<>>

(* ================== properties: NettingEngine, continued ================ *)

\* the exact sum of the signed price * quantity contributions of a key, negated
\* when lo is the deliverer (lo sold more than it bought), clamped into i64
ClampedPayment(key) ==
    saturating_i128_to_i64(IF Bought(key) > Sold(key)
                           THEN ExactPayment(key) ELSE -ExactPayment(key))

\* C29: the net_payment of each obligation compute_net returns equals the
\* exact wide sum of the signed price * quantity contributions of its key
\* (negated when lo is the deliverer) clamped into the i64 range; when the
\* exact sum lies outside the i64 range the obligation of a key whose
\* quantities do not offset is still emitted, with net_payment i64::MAX or
\* i64::MIN and with the correct net_quantity and direction.
C29_ClampAndContinue ==
    NetReturned =>
        /\ \A o \in emitted.obligations :
             o.net_payment = ClampedPayment(KeyOfObligation(o))
        /\ \A key \in AllKeys :
             (OverflowsI64(ExactPayment(key)) /\ Bought(key) # Sold(key)) =>
                \E o \in ObligationsOf(key) :
                    /\ o.net_payment \in {I64Min, I64Max}
                    /\ o.net_quantity = Abs(Bought(key) - Sold(key))
                    /\ o.receiver_id = IF Bought(key) > Sold(key)
                                       THEN key.lo_id ELSE key.hi_id
                    /\ o.deliverer_id = IF Bought(key) > Sold(key)
                                        THEN key.hi_id ELSE key.lo_id

(* ====================== properties: ReplayVerifier ===================== *)

\* verify was called on the logs of the journal and of a replayed journal
JournalsVerified == replay.op = "verify"

\* the positions at which the replayed journal differs from the journal
Differing ==
    { k \in DOMAIN entries : replay.replayed[k] # entries[k] }

\* C22: two journals built by the same sequence of record(timestamp, event)
\* calls yield element-wise equal replay logs from build_replay_log, and verify
\* of those logs (verify(L, L), the empty log included) returns success = true,
\* steps_verified = |L| and no discrepancies.
C22_ReplayDeterminism ==
    (JournalsVerified /\ CallsOf(replay.replayed) = CallsOf(entries)) =>
        /\ Len(replay.actual) = Len(replay.expected)
        /\ \A i \in DOMAIN replay.expected : replay.actual[i] = replay.expected[i]
        /\ ~replay.result.panicked
        /\ replay.result.success
        /\ replay.result.steps_verified = Len(replay.expected)
        /\ replay.result.discrepancies = <<>>

C22_Witness ==
    /\ JournalsVerified /\ CallsOf(replay.replayed) = CallsOf(entries)
    /\ Len(replay.expected) = MaxEntries
    /\ replay.expected[1].event_kind # replay.expected[2].event_kind
    /\ replay.expected[1].content_hash # replay.expected[2].content_hash
    /\ replay.result.success
    /\ replay.result.steps_verified = MaxEntries

\* C23: if two journals of equal length differ only in the entry at sequence k
\* (another timestamp, another event variant, or another value of any single
\* field of the event), verify on their replay logs reports success = false
\* with a discrepancy at sequence k and steps_verified = |L| - 1.
C23_ReplayLocalization ==
    (JournalsVerified /\ Len(replay.replayed) = Len(entries)) =>
        \A k \in DOMAIN entries :
            Differing = {k} =>
                /\ ~replay.result.success
                /\ \E d \in DOMAIN replay.result.discrepancies :
                     replay.result.discrepancies[d].sequence = entries[k].sequence
                /\ replay.result.steps_verified = Len(entries) - 1

\* verify has returned
VerifyReturned == replay.op = "verify" /\ ~replay.result.panicked

MinLen == Min(Len(replay.expected), Len(replay.actual))

\* the compared positions at which the two content hashes differ
Mismatches ==
    { i \in 1..MinLen :
        replay.expected[i].content_hash # replay.actual[i].content_hash }

\* the j-th of them in increasing order
Mismatch(j) ==
    CHOOSE i \in Mismatches : Cardinality({ m \in Mismatches : m <= i }) = j

LengthsDiffer == Len(replay.expected) # Len(replay.actual)

C25_LengthMismatch ==
    VerifyReturned =>
        LET n == Cardinality(Mismatches)
            d == replay.result.discrepancies IN
        IF LengthsDiffer
        THEN /\ Len(d) = n + 1
             /\ d[n + 1].expected_hash = Len(replay.expected)
             /\ d[n + 1].actual_hash = Len(replay.actual)
             /\ d[n + 1].sequence =
                  IF MinLen > 0 THEN replay.expected[MinLen].sequence + 1 ELSE 1
             /\ ~replay.result.success
        ELSE Len(d) = n

\* all but the last entry of a non-empty journal
Front(es) == SubSeq(es, 1, Len(es) - 1)

\* C26: compute_journal_hash of an empty journal is the FNV offset basis
\* 0xcbf29ce484222325, and for a journal J followed by an entry e recorded
\* next it is FNV-1a over the bytes [compute_journal_hash(J) little-endian |
\* step_hash(e) little-endian], where step_hash(e) is the content_hash
\* build_replay_log assigns to e.
C26_HashChaining ==
    replay.op = "compute_journal_hash" =>
        IF entries = <<>>
        THEN replay.hash = from_le_bytes(SubSeq(FnvOffsetBasisBytes, 1, HashBytes))
        ELSE replay.hash =
                fnv1a(to_le_bytes(compute_journal_hash(Front(entries)))
                      \o to_le_bytes(build_replay_log(entries)[Len(entries)].content_hash))

C26_Witness ==
    /\ replay.op = "compute_journal_hash"
    /\ Len(entries) = MaxEntries
    /\ entries[MaxEntries].event.kind = "SettlementFailed"
    /\ replay.hash # compute_journal_hash(Front(entries))
    /\ replay.hash # FnvOffsetBasis

\* the discriminant byte of each variant
KindByte ==
    [TradeReceived |-> 0, NettingCompleted |-> 1, ClearingAttempted |-> 2,
     SettlementCompleted |-> 3, SettlementFailed |-> 4]

\* C27: build_replay_log preserves the journal's shape: the log has exactly
\* one step per journal entry in journal order, step i carries the sequence
\* and timestamp_ns of entry i, and its event_kind byte is 0 for
\* TradeReceived, 1 for NettingCompleted, 2 for ClearingAttempted, 3 for
\* SettlementCompleted and 4 for SettlementFailed.
C27_LogShape ==
    replay.op = "build_replay_log" =>
        /\ Len(replay.log) = Len(entries)
        /\ \A i \in DOMAIN entries :
             /\ replay.log[i].sequence = entries[i].sequence
             /\ replay.log[i].timestamp_ns = entries[i].timestamp_ns
             /\ replay.log[i].event_kind = KindByte[entries[i].event.kind]

C27_Witness ==
    /\ replay.op = "build_replay_log"
    /\ Len(replay.log) = MaxEntries
    /\ replay.log[1].event_kind = 4 /\ replay.log[2].event_kind = 0
    /\ replay.log[1].timestamp_ns > replay.log[2].timestamp_ns
    /\ replay.log[1].sequence = 1 /\ replay.log[2].sequence = 2

(* ================= properties: NettingEngine, whole cycles ============= *)

\* the run returned its results
RunReturned(op) == run.op = op /\ ~run.panicked

\* C31: immediately after clear(), compute_net returns no obligations, and
\* for any later sequence of add_trade calls the engine returns the same
\* obligations as a newly constructed engine given that same sequence: no
\* quantity, payment or trade_count carries over from the previous cycle.
C31_ResetForNextCycle ==
    RunReturned("cycle") =>
        /\ run.net_cleared = {}
        /\ NetOf(NewEngine, run.trades, overflow_checks)
             = [current |-> TRUE, panicked |-> FALSE, obligations |-> run.net]

C31_Witness ==
    /\ RunReturned("cycle")
    /\ run.previous = <<Trade(1, 1, 2, I64Max, U64Max)>>
    /\ Len(run.trades) = 2
    /\ run.trades[1] = Trade(1, 1, 2, 1, 1)
    /\ run.trades[2] = Trade(2, 1, 2, 1, 1)
    /\ Cardinality(run.net) = 2
    /\ \A o \in run.net : o.trade_count = 1 /\ o.net_quantity = 1 /\ o.net_payment = 1

\* the trades of ts in the order p
Reordered(ts, p) == [i \in DOMAIN ts |-> ts[p[i]]]

PositiveCount(seq) == Cardinality({ i \in DOMAIN seq : seq[i].net_quantity > 0 })

\* the cancellation just made was of a cycle of positive-quantity edges, took
\* one of them to 0 and left fewer positive-quantity obligations
CycleShrinks ==
    /\ \A k \in DOMAIN multilateral.cycle_indices :
         multilateral.before[multilateral.cycle_indices[k]].net_quantity > 0
    /\ \E k \in DOMAIN multilateral.cycle_indices :
         multilateral.obs[multilateral.cycle_indices[k]].net_quantity = 0
    /\ PositiveCount(multilateral.obs) < PositiveCount(multilateral.before)

MultilateralRunning == multilateral.pc \in {"for", "loop"}

\* C33: multilateral_net terminates on every finite input (self-loops,
\* parallel edges, opposite edges between the same pair and zero-quantity
\* obligations included): every cycle returned by find_cycle consists only of
\* edges with net_quantity > 0, and each cancellation reduces at least one
\* such edge to 0, so the number of positive-quantity obligations strictly
\* decreases with every loop iteration.
C33_Termination ==
    /\ [](JustCancelled => CycleShrinks)
    /\ MultilateralRunning ~> (MultilateralReturned \/ panicked)

C33_Witness ==
    /\ MultilateralReturned
    /\ Len(multilateral.obligations) = 3
    /\ \E i, j, k \in DOMAIN multilateral.obligations :
         /\ multilateral.obligations[i] = NetObligation(1, 2, 2, 1, 1, 1)
         /\ multilateral.obligations[j] = NetObligation(1, 1, 2, 2, -1, 1)
         /\ multilateral.obligations[k] = NetObligation(1, 2, 1, 1, 1, 1)
    /\ Len(multilateral.result) = 1
    /\ multilateral.result[1].net_quantity = 1

\* the directed edges deliverer -> receiver of the positive-quantity
\* obligations of a list
PositiveEdges(seq) ==
    { <<seq[i].deliverer_id, seq[i].receiver_id>> :
        i \in { j \in DOMAIN seq : seq[j].net_quantity > 0 } }

\* the nodes one edge away from a node of S, and those at most n edges away
Successors(E, S) == { e[2] : e \in { x \in E : x[1] \in S } }
RECURSIVE Reach(_, _, _)
Reach(E, S, n) ==
    IF n = 0 \/ S = {} THEN {}
    ELSE Successors(E, S) \cup Reach(E, Successors(E, S), n - 1)

\* some node reaches itself
HasCycle(E) == \E a \in AccountIds : a \in Reach(E, {a}, Cardinality(AccountIds))

\* the obligations of one symbol in a list
OfSymbol(seq, symbol) == SelectSeq(seq, LAMBDA ob : ob.symbol_hash = symbol)

\* the list is one or more disjoint cycles of one symbol, all edges at the
\* same positive quantity
PerfectlyBalanced(seq) ==
    /\ seq # <<>>
    /\ \A i, j \in DOMAIN seq :
         /\ seq[i].symbol_hash = seq[j].symbol_hash
         /\ seq[i].net_quantity = seq[j].net_quantity
         /\ seq[i].net_quantity > 0
         /\ i # j => /\ seq[i].deliverer_id # seq[j].deliverer_id
                     /\ seq[i].receiver_id # seq[j].receiver_id
    /\ { seq[i].deliverer_id : i \in DOMAIN seq }
         = { seq[i].receiver_id : i \in DOMAIN seq }

\* C34: the result of multilateral_net is cycle-free and zero-free: for every
\* symbol, the directed graph deliverer -> receiver formed by the returned
\* obligations of that symbol contains no directed cycle (find_cycle misses
\* no cycle that exists), and no returned obligation has net_quantity = 0; a
\* perfectly balanced cycle is removed completely.
C34_CycleFree ==
    /\ multilateral.pc = "loop" =>
         (find_cycle(multilateral.obs) # {} <=> HasCycle(PositiveEdges(multilateral.obs)))
    /\ MultilateralReturned =>
         /\ \A symbol \in InputSymbols :
              ~HasCycle(PositiveEdges(OfSymbol(multilateral.result, symbol)))
         /\ \A i \in DOMAIN multilateral.result :
              multilateral.result[i].net_quantity > 0
         /\ PerfectlyBalanced(multilateral.obligations) => multilateral.result = <<>>

C34_Witness ==
    /\ MultilateralReturned
    /\ Len(multilateral.obligations) = 3
    /\ PerfectlyBalanced(multilateral.obligations)
    /\ \A i \in DOMAIN multilateral.obligations :
         multilateral.obligations[i].deliverer_id
            # multilateral.obligations[i].receiver_id
    /\ multilateral.result = <<>>

\* the indices of the cycle just cancelled
CycleEdges == { multilateral.cycle_indices[k] : k \in DOMAIN multilateral.cycle_indices }

\* m is the minimum net_quantity among the cycle's edges before the cancellation
IsCycleMinimum(m) ==
    /\ \E i \in CycleEdges : multilateral.before[i].net_quantity = m
    /\ \A i \in CycleEdges : multilateral.before[i].net_quantity >= m

\* C35: a cycle cancellation subtracts exactly m, the minimum net_quantity
\* among the cycle's edges, from the net_quantity of every edge on the cycle,
\* and leaves symbol, deliverer, receiver and trade_count of those edges and
\* every field of every obligation not on the cycle unchanged.
C35_CancellationFrame ==
    JustCancelled =>
        /\ DOMAIN multilateral.obs = DOMAIN multilateral.before
        /\ \A m \in 0..U64Max :
             IsCycleMinimum(m) =>
                \A i \in DOMAIN multilateral.before :
                    LET old == multilateral.before[i]
                        new == multilateral.obs[i]
                    IN  IF i \in CycleEdges
                        THEN /\ new.net_quantity = old.net_quantity - m
                             /\ new.symbol_hash = old.symbol_hash
                             /\ new.deliverer_id = old.deliverer_id
                             /\ new.receiver_id = old.receiver_id
                             /\ new.trade_count = old.trade_count
                        ELSE new = old

C35_Witness ==
    /\ JustCancelled
    /\ Len(multilateral.cycle_indices) = 3
    /\ \E i, j, k \in CycleEdges :
         /\ multilateral.before[i].net_quantity = 2
         /\ multilateral.before[j].net_quantity = 2
         /\ multilateral.before[k].net_quantity = 1
         /\ multilateral.obs[i].net_quantity = 1
         /\ multilateral.obs[j].net_quantity = 1
         /\ multilateral.obs[k].net_quantity = 0
         /\ i # j

\* C36: for every edge on a cancelled cycle with original quantity q_e,
\* payment p_e (any i64, positive or negative) and cycle minimum m, the new
\* payment is p_e - floor(p_e * m / q_e), computed without intermediate
\* overflow; an edge cancelled completely (m = q_e) ends with net_payment 0.
C36_ProportionalPayment ==
    JustCancelled =>
        \A m \in 1..U64Max :
            IsCycleMinimum(m) =>
                \A i \in CycleEdges :
                    LET p == multilateral.before[i].net_payment
                        q == multilateral.before[i].net_quantity
                    IN  /\ multilateral.obs[i].net_payment = p - ((p * m) \div q)
                        /\ m = q => multilateral.obs[i].net_payment = 0

\* C37: cycles are scoped per symbol: every positive-quantity obligation
\* whose symbol partition contains no directed cycle is returned by
\* multilateral_net with all fields unchanged, even when its edges would
\* close a cycle together with obligations of another symbol; obligations of
\* one symbol never affect the result for another symbol.
C37_SymbolScope ==
    MultilateralReturned =>
        \A symbol \in InputSymbols :
            LET given == OfSymbol(multilateral.obligations, symbol)
                returned == OfSymbol(multilateral.result, symbol)
            IN  /\ ~HasCycle(PositiveEdges(given)) => returned = Retain(given)
                /\ returned \in LoopResults(given)

C37_Witness ==
    /\ MultilateralReturned
    /\ Len(multilateral.obligations) = 3
    /\ HasCycle(PositiveEdges(multilateral.obligations))
    /\ \A symbol \in InputSymbols :
         /\ OfSymbol(multilateral.obligations, symbol) # <<>>
         /\ ~HasCycle(PositiveEdges(OfSymbol(multilateral.obligations, symbol)))
    /\ Len(multilateral.result) = 3

(* =============== properties: DefaultWaterfall, continued =============== *)

\* DefaultWaterfall::total_capacity
total_capacity(cfg) ==
    saturating_add(
        saturating_add(
            saturating_add(
                saturating_add(cfg.defaulter_margin, cfg.defaulter_fund),
                cfg.ccp_first_loss),
            cfg.members_fund),
        cfg.ccp_capital)

\* no capacity of the configuration is negative
NonNegativeCapacities ==
    \A k \in 1..5 : Capacities(config)[k][2] >= 0

SumOfCapacities ==
    config.defaulter_margin + config.defaulter_fund + config.ccp_first_loss
        + config.members_fund + config.ccp_capital

\* C39: layers are exhausted strictly in order: in every absorb_loss result
\* with non-negative capacities, a layer absorbs a non-zero amount only if
\* every earlier layer absorbed its full capacity, and once some layer absorbs
\* less than its capacity all later layers absorb 0.
C39_StrictOrder ==
    (Absorbed /\ NonNegativeCapacities) =>
        LET layers == waterfall_result.layers IN
        \A i \in DOMAIN layers :
            /\ layers[i].absorbed # 0 =>
                 \A j \in 1..(i - 1) : layers[j].absorbed = layers[j].capacity
            /\ layers[i].absorbed < layers[i].capacity =>
                 \A j \in (i + 1)..Len(layers) : layers[j].absorbed = 0

C39_Witness ==
    /\ Absorbed /\ NonNegativeCapacities
    /\ waterfall_result.layers[1].capacity > 0
    /\ waterfall_result.layers[1].absorbed = waterfall_result.layers[1].capacity
    /\ waterfall_result.layers[2].absorbed > 0
    /\ waterfall_result.layers[2].absorbed < waterfall_result.layers[2].capacity
    /\ waterfall_result.layers[3].capacity > 0
    /\ waterfall_result.layers[3].absorbed = 0

\* C40: coverage criterion: for every configuration with non-negative
\* capacities whose sum does not exceed i64::MAX and every loss, absorb_loss
\* reports fully_covered = true exactly when loss <= total_capacity() (in
\* particular for every loss <= 0, where all layers absorb 0), fully_covered
\* is equivalent to shortfall = 0, and otherwise shortfall =
\* loss - total_capacity().
C40_Coverage ==
    (Absorbed /\ NonNegativeCapacities /\ SumOfCapacities <= I64Max) =>
        /\ waterfall_result.fully_covered
             <=> waterfall_result.total_loss <= total_capacity(config)
        /\ waterfall_result.fully_covered <=> waterfall_result.shortfall = 0
        /\ ~waterfall_result.fully_covered =>
             waterfall_result.shortfall
                = waterfall_result.total_loss - total_capacity(config)
        /\ waterfall_result.total_loss <= 0 =>
             \A k \in 1..5 : waterfall_result.layers[k].absorbed = 0

C40_Witness ==
    /\ Absorbed /\ NonNegativeCapacities /\ SumOfCapacities <= I64Max
    /\ total_capacity(config) > 0
    /\ waterfall_result.total_loss = total_capacity(config) + 1
    /\ ~waterfall_result.fully_covered
    /\ waterfall_result.shortfall = 1

====
